---------------------------- MODULE Spec2Model ----------------------------
(***************************************************************************)
(* k6-test-boilerplate: the CRUD-flow scenario (crud-operations.js), the   *)
(* HTTP facade and the response validators (http-utils.js / checks.js),    *)
(* the endpoint tests (post-endpoint.js, get-endpoint.js), the scenario    *)
(* orchestration of run-all.js and the runner scripts (run.sh,             *)
(* sequential-tests.sh, parallel-tests.sh), as state machines.             *)
(*                                                                         *)
(* A virtual user (VU) is a record: its position in the scenario function, *)
(* the locals of the running iteration, and what the iteration (or the     *)
(* library call) has done so far: HTTP requests issued, console lines,     *)
(* check results recorded, metric samples added, value returned.           *)
(* The target API is the environment: every request is answered by a       *)
(* response chosen nondeterministically from a small set.                  *)
(***************************************************************************)
EXTENDS Integers, Sequences, FiniteSets, TLC

VARIABLES
    vu,         \* per virtual user: position, locals, effects of the iteration
    metrics,    \* the custom metrics, aggregated over all VUs
    env,        \* __ENV: the variables given on the command line (-e NAME=value)
    profiles,   \* the LOAD_PROFILES table of config/env.js, as shipped or customised
    options,    \* the options object the script exports to the runtime
    shell       \* the bash process running one of the runner scripts

vars == <<vu, metrics, env, profiles, options, shell>>

\* what a running virtual user only reads
config == <<env, profiles, options, shell>>

-----------------------------------------------------------------------------
(* Bounds of the model *)

\* virtual users of the interleaved scenario
NumVUs == 2
\* iterations each virtual user runs
MaxIter == 2
\* largest VU count of a customised load profile
MaxVus == 120

VUs == 1..NumVUs

-----------------------------------------------------------------------------
(* JavaScript values: a tag and a payload *)

JUndef == [t |-> "undefined", v |-> 0]
JNull == [t |-> "null", v |-> 0]
JInvalid == [t |-> "invalid", v |-> 0]   \* text that JSON.parse rejects
JNum(n) == [t |-> "number", v |-> n]
JNaN == [t |-> "NaN", v |-> 0]            \* the number NaN
JFunction == [t |-> "function", v |-> 0]
\* a string is the sequence of the pieces a template literal joins
JStr(s) == [t |-> "string", v |-> s]
Str(s) == JStr(<<s>>)
JBool(b) == [t |-> "boolean", v |-> b]
JObj(o) == [t |-> "object", v |-> o]
JArr(a) == [t |-> "array", v |-> a]

NoFields == [f \in {} |-> JUndef]

\* ToBoolean: what `if (x)`, `!x`, `x || y`, `x ? a : b` look at
Truthy(x) ==
    CASE x.t = "undefined" -> FALSE
      [] x.t = "null" -> FALSE
      [] x.t = "NaN" -> FALSE
      [] x.t = "number" -> x.v # 0
      [] x.t = "string" -> x.v # <<>>
      [] x.t = "boolean" -> x.v
      [] OTHER -> TRUE

\* x.f: reading a property of null or undefined raises a TypeError
Throws(x) == x.t \in {"undefined", "null"}

\* what every object inherits from Object.prototype
ObjectPrototype == {"constructor", "toString", "valueOf", "hasOwnProperty"}

\* x[f] for x neither null nor undefined: an own property, else an inherited
\* one, else undefined
Prop(x, f) ==
    IF x.t = "object" /\ f \in DOMAIN x.v THEN x.v[f]
    ELSE IF x.t = "array" /\ f = "length" THEN JNum(Len(x.v))
    ELSE IF f \in ObjectPrototype THEN JFunction
    ELSE JUndef

\* x?.f
OptProp(x, f) == IF Throws(x) THEN JUndef ELSE Prop(x, f)

\* typeof x
TypeOf(x) ==
    CASE x.t \in {"null", "array"} -> "object"
      [] x.t = "NaN" -> "number"
      [] OTHER -> x.t

\* the decimal digits of a number, as a template literal prints it
NumStr(n) == ToString(n)

\* `${x}` for the values that reach a path
ToStr(x) ==
    CASE x.t = "undefined" -> <<"undefined">>
      [] x.t = "null" -> <<"null">>
      [] x.t = "number" -> <<NumStr(x.v)>>
      [] x.t = "string" -> x.v
      [] x.t = "boolean" -> IF x.v THEN <<"true">> ELSE <<"false">>
      [] x.t = "function" -> <<"function () { [native code] }">>
      [] OTHER -> <<"[object Object]">>

\* x == y (loose equality) for primitives; objects compare by identity
LooseEq(x, y) ==
    CASE x.t \in {"undefined", "null"} -> y.t \in {"undefined", "null"}
      [] y.t \in {"undefined", "null"} -> FALSE
      [] x.t = y.t /\ x.t \in {"number", "string", "boolean"} -> x.v = y.v
      [] x.t = "number" /\ y.t = "string" -> <<NumStr(x.v)>> = y.v
      [] x.t = "string" /\ y.t = "number" -> x.v = <<NumStr(y.v)>>
      [] OTHER -> FALSE

\* x === y for primitives
StrictEq(x, y) == x.t = y.t /\ x.t \notin {"object", "array"} /\ x.v = y.v

\* { ...x }: the own enumerable properties; null, undefined, numbers give none
Spread(x) == IF x.t = "object" THEN x.v ELSE NoFields

\* { ...a, ...b }: b's properties win
Merge(a, b) ==
    [f \in (DOMAIN a) \cup (DOMAIN b) |-> IF f \in DOMAIN b THEN b[f] ELSE a[f]]

-----------------------------------------------------------------------------
(* config/env.js *)

Unset == "<unset>"

HOSTS ==
    ("PROD" :> Str("https://api.example.com")) @@
    ("DEV" :> Str("https://api-dev.example.com")) @@
    ("STAGING" :> Str("https://api-staging.example.com")) @@
    ("LOCAL" :> Str("http://localhost:3000"))

\* __ENV.X || fallback: an unset or empty variable is falsy
EnvOr(value, fallback) == IF value \in {Unset, ""} THEN fallback ELSE value

\* __ENV.HOST ? HOSTS[__ENV.HOST] || __ENV.HOST : HOSTS.DEV
\* (HOSTS[name] finds the properties HOSTS inherits as well as its own)
CURRENT_HOST(e) ==
    IF e.HOST \notin {Unset, ""}
    THEN LET found == Prop(JObj(HOSTS), e.HOST)
         IN  IF Truthy(found) THEN found ELSE Str(e.HOST)
    ELSE HOSTS["DEV"]

LOAD_PROFILES ==
    [SMOKE |-> JObj([vus |-> JNum(1), duration |-> Str("30s")]),
     LIGHT |-> JObj([vus |-> JNum(10), duration |-> Str("60s")]),
     MEDIUM |-> JObj([vus |-> JNum(30), duration |-> Str("5m")]),
     HEAVY |-> JObj([vus |-> JNum(100), duration |-> Str("10m")])]

\* const profileName = __ENV.PROFILE || 'LIGHT';
\* return LOAD_PROFILES[profileName] || DEFAULT_PROFILE;
getProfile(e, table) ==
    LET profileName == EnvOr(e.PROFILE, "LIGHT")
        found == Prop(JObj(table), profileName)
    IN  IF Truthy(found) THEN found ELSE table.LIGHT

TOKENS(e) ==
    [USER |-> Str(EnvOr(e.TOKEN_USER, "your-user-token-here")),
     ADMIN |-> Str(EnvOr(e.TOKEN_ADMIN, "your-admin-token-here")),
     SUPER_USER |-> Str(EnvOr(e.TOKEN_SUPER_USER, "your-super-user-token-here"))]

-----------------------------------------------------------------------------
(* HTTP responses, as the runtime hands them to the script *)

\* A body is its text, seen as: present or null, its length in characters,
\* and what JSON.parse makes of it (JInvalid: a SyntaxError).
Body(present, len, json) == [present |-> present, len |-> len, json |-> json]

Response(status, body, ms) == [status |-> status, body |-> body, ms |-> ms]

\* res.json(): raises when the body is null, empty or not JSON
JsonThrows(res) == res.body.json = JInvalid

\* res.body as a value: null, or a string of body.len characters
BodyTruthy(res) == res.body.present /\ res.body.len > 0

-----------------------------------------------------------------------------
(* helpers/common.js *)

\* `${CURRENT_HOST}${path}`
getUrl(e, path) == [host |-> ToStr(CURRENT_HOST(e)), path |-> path]

\* `Bearer ${TOKENS[role]}`: a role that is no key of TOKENS reads undefined,
\* or what TOKENS inherits under that name
getHeaders(e, role) ==
    [Accept |-> "application/json",
     ContentType |-> "application/json",
     Authorization |-> <<"Bearer ">> \o ToStr(Prop(JObj(TOKENS(e)), role))]

\* console.error(`ERROR [${context}]: ${message}`): one line
logError(context, text, status, detail) ==
    [context |-> context, text |-> text, status |-> status, detail |-> detail]

\* response.body?.substring(0, 200) || 'No body'
BodyExcerptLen == 200

BodyExcerpt(res) ==
    IF BodyTruthy(res)
    THEN (IF res.body.len < BodyExcerptLen THEN res.body.len ELSE BodyExcerptLen)
    ELSE 0

logRequestError(context, res) ==
    logError(context, "Request failed with status", res.status,
             IF BodyExcerpt(res) > 0 THEN "body" ELSE "No body")

-----------------------------------------------------------------------------
(* utils/http-utils.js: the request wrappers.  Each takes the response the
   runtime returns for its one http call and yields the request it issued,
   the console lines it wrote and the value it returns. *)

Request(method, url, headers, body) ==
    [method |-> method, url |-> url, headers |-> headers, body |-> body]

\* (variant: every status outside 200..299 is logged)
get_LogsNon2xx(e, path, role, context, res) ==
    [reqs |-> <<Request("GET", getUrl(e, path), getHeaders(e, role), JUndef)>>,
     logs |-> IF res.status < 200 \/ res.status >= 300
              THEN <<logRequestError(context, res)>> ELSE <<>>,
     ret |-> res]

\* one http call, one line on the console if (res.status >= 400), return res
get(e, path, role, context, res) ==
    [reqs |-> <<Request("GET", getUrl(e, path), getHeaders(e, role), JUndef)>>,
     logs |-> IF res.status >= 400 THEN <<logRequestError(context, res)>> ELSE <<>>,
     ret |-> res]

post(e, path, payload, role, context, res) ==
    [reqs |-> <<Request("POST", getUrl(e, path), getHeaders(e, role), payload)>>,
     logs |-> IF res.status >= 400 THEN <<logRequestError(context, res)>> ELSE <<>>,
     ret |-> res]

put(e, path, payload, role, context, res) ==
    [reqs |-> <<Request("PUT", getUrl(e, path), getHeaders(e, role), payload)>>,
     logs |-> IF res.status >= 400 THEN <<logRequestError(context, res)>> ELSE <<>>,
     ret |-> res]

patch(e, path, payload, role, context, res) ==
    [reqs |-> <<Request("PATCH", getUrl(e, path), getHeaders(e, role), payload)>>,
     logs |-> IF res.status >= 400 THEN <<logRequestError(context, res)>> ELSE <<>>,
     ret |-> res]

del(e, path, role, context, res) ==
    [reqs |-> <<Request("DELETE", getUrl(e, path), getHeaders(e, role), JNull)>>,
     logs |-> IF res.status >= 400 THEN <<logRequestError(context, res)>> ELSE <<>>,
     ret |-> res]

\* (variant: a 400 itself is not logged)
delWithBody_Above400(e, path, payload, role, context, res) ==
    [reqs |-> <<Request("DELETE", getUrl(e, path), getHeaders(e, role), payload)>>,
     logs |-> IF res.status > 400 THEN <<logRequestError(context, res)>> ELSE <<>>,
     ret |-> res]

delWithBody(e, path, payload, role, context, res) ==
    [reqs |-> <<Request("DELETE", getUrl(e, path), getHeaders(e, role), payload)>>,
     logs |-> IF res.status >= 400 THEN <<logRequestError(context, res)>> ELSE <<>>,
     ret |-> res]

\* try { return res.json() } catch (e) { return defaultValue }   (default null)
safeJson(res) == IF JsonThrows(res) THEN JNull ELSE res.body.json

\* data ? data[idField] : null
extractId(res, idField) ==
    LET data == safeJson(res)
    IN  IF Truthy(data) THEN Prop(data, idField) ELSE JNull

-----------------------------------------------------------------------------
(* k6: check() and the custom metrics *)

\* One entry of the object given to check(): the name, and what the predicate
\* does on the value: "pass" (truthy), "fail" (falsy) or "throw".
Pred(name, truthy) == [name |-> name, r |-> IF truthy THEN "pass" ELSE "fail"]
PredThrow(name) == [name |-> name, r |-> "throw"]

RECURSIVE FirstThrow(_, _)
FirstThrow(entries, i) ==
    IF i > Len(entries) THEN 0
    ELSE IF entries[i].r = "throw" THEN i
    ELSE FirstThrow(entries, i + 1)

\* check(val, sets): the predicates run in order and each result is recorded
\* as a pass or a fail of its own; a predicate that raises is recorded as a
\* fail, and then its exception leaves check().
check(entries) ==
    LET t == FirstThrow(entries, 1)
        n == IF t = 0 THEN Len(entries) ELSE t
    IN  [recorded |-> [i \in 1..n |-> [name |-> entries[i].name, pass |-> entries[i].r = "pass"]],
         threw |-> t # 0,
         ret |-> \A i \in 1..n : entries[i].r = "pass"]

\* metric.add(x)
Sample(m, x) == [m |-> m, x |-> x]

Trends ==
    {"crud_create_duration", "crud_read_duration", "crud_update_duration",
     "crud_delete_duration", "post_create_duration", "get_list_duration",
     "get_details_duration"}

MetricNames ==
    Trends \cup
    {"crud_success_rate", "crud_full_flow_success", "crud_full_flow_failed",
     "crud_create_count", "crud_read_count", "crud_update_count", "crud_delete_count",
     "post_create_requests", "post_create_errors", "post_created_items",
     "get_list_requests", "get_list_errors", "get_details_requests", "get_details_errors"}

\* A Counter sums what is added and a Rate counts the true samples (sum) among
\* all (n); of a Trend the model keeps the number of samples.
RECURSIVE AddSamples(_, _)
AddSamples(ms, adds) ==
    IF adds = <<>> THEN ms
    ELSE LET a == Head(adds)
             old == ms[a.m]
             new == [n |-> old.n + 1,
                     sum |-> IF a.m \in Trends THEN old.sum ELSE old.sum + a.x]
         IN  AddSamples([ms EXCEPT ![a.m] = new], Tail(adds))

BoolNum(b) == IF b THEN 1 ELSE 0

-----------------------------------------------------------------------------
(* config/slo.js *)

\* An SLO record: p95 and p99 in ms, and errorRate, a fraction, kept as the
\* decimal text a template literal prints for it (`${0.01}` is "0.01").
Slo(p95, p99, errorRate) == [p95 |-> p95, p99 |-> p99, errorRate |-> errorRate]

DEFAULT_SLO ==
    [read |-> Slo(500, 1000, "0.01"),
     write |-> Slo(1000, 2500, "0.02"),
     critical |-> Slo(200, 500, "0.005")]

ENDPOINT_SLO ==
    [auth |-> [login |-> Slo(300, 800, "0.005"), logout |-> Slo(200, 500, "0.01")],
     users |-> [list |-> Slo(500, 1000, "0.01"), details |-> Slo(200, 500, "0.01"),
                create |-> Slo(1000, 2000, "0.02"), update |-> Slo(800, 1500, "0.02"),
                delete |-> Slo(500, 1000, "0.02")],
     products |-> [list |-> Slo(300, 800, "0.01"), search |-> Slo(500, 1200, "0.01"),
                   details |-> Slo(150, 400, "0.01")]]

\* A thresholds object maps keys to lists of expressions.  A key is the
\* metric name, followed by the tag and the tag value when the key is
\* 'metric{tag:value}'; an expression is the pieces of its template literal.
generateThresholds(slo) ==
    (<<"http_req_duration">> :> << <<"p(95)<", NumStr(slo.p95)>>,
                                  <<"p(99)<", NumStr(slo.p99)>> >>) @@
    (<<"http_req_failed">> :> << <<"rate<", slo.errorRate>> >>) @@
    (<<"checks">> :> << <<"rate>0.95">> >>)

-----------------------------------------------------------------------------
(* tests/example/crud-operations.js: the five operations.  Each yields what
   it did (requests, console lines, check results, metric samples) and the
   record it returns. *)

\* createProductPayload(): name `Product ${randomString(5)}`, random price and stock
createProductPayload(rnd) ==
    JObj([name |-> JStr(<<"Product ", rnd>>), price |-> JNum(1), stock |-> JNum(0),
          category |-> Str("general")])

Is2xx(status) == status >= 200 /\ status < 300

createResource(e, rnd, res) ==
    LET call == post(e, <<"/products">>, createProductPayload(rnd), "ADMIN", "crud-create", res)
        duration == res.ms
        success == Is2xx(res.status)
        id == extractId(res, "id")
        data == safeJson(res)
        ck == check(<<Pred(<<"CREATE: status 2xx">>, Is2xx(res.status)),
                      Pred(<<"CREATE: has id">>, id # JNull),
                      Pred(<<"CREATE: response time OK">>, duration < DEFAULT_SLO.write.p95)>>)
    IN  [reqs |-> call.reqs,
         logs |-> call.logs \o
                  (IF ~success
                   THEN <<logError("crud-create", "Failed with status", res.status, "")>>
                   ELSE <<>>),
         checks |-> ck.recorded,
         adds |-> <<Sample("crud_create_duration", duration), Sample("crud_create_count", 1),
                    Sample("crud_success_rate", BoolNum(success))>>,
         ret |-> [success |-> success, id |-> id, data |-> data]]

\* the early return of read, update and delete: if (!id)
NoId(context) ==
    [reqs |-> <<>>,
     logs |-> <<logError(context, "No ID provided", 0, "")>>,
     checks |-> <<>>,
     adds |-> <<>>,
     ret |-> [success |-> FALSE, id |-> JNull, data |-> JNull]]

\* (variant: a READ succeeds when all its checks pass)
readResource_SuccessOfChecks(e, id, res) ==
    IF ~Truthy(id) THEN NoId("crud-read")
    ELSE
    LET call == get(e, <<"/products/">> \o ToStr(id), "USER", "crud-read", res)
        duration == res.ms
        data == safeJson(res)
        ck == check(<<Pred(<<"READ: status 200">>, res.status = 200),
                      Pred(<<"READ: has correct id">>, LooseEq(OptProp(data, "id"), id)),
                      Pred(<<"READ: response time OK">>, duration < DEFAULT_SLO.read.p95)>>)
        success == ck.ret
    IN  [reqs |-> call.reqs,
         logs |-> call.logs \o
                  (IF ~success
                   THEN <<logError("crud-read", "Failed with status", res.status, "for ID")>>
                   ELSE <<>>),
         checks |-> ck.recorded,
         adds |-> <<Sample("crud_read_duration", duration), Sample("crud_read_count", 1),
                    Sample("crud_success_rate", BoolNum(success))>>,
         ret |-> [success |-> success, id |-> JNull, data |-> data]]

\* (variant: a failed READ is not counted)
readResource_CountOnSuccess(e, id, res) ==
    IF ~Truthy(id) THEN NoId("crud-read")
    ELSE
    LET call == get(e, <<"/products/">> \o ToStr(id), "USER", "crud-read", res)
        duration == res.ms
        success == res.status = 200
        data == safeJson(res)
        ck == check(<<Pred(<<"READ: status 200">>, res.status = 200),
                      Pred(<<"READ: has correct id">>, LooseEq(OptProp(data, "id"), id)),
                      Pred(<<"READ: response time OK">>, duration < DEFAULT_SLO.read.p95)>>)
    IN  [reqs |-> call.reqs,
         logs |-> call.logs \o
                  (IF ~success
                   THEN <<logError("crud-read", "Failed with status", res.status, "for ID")>>
                   ELSE <<>>),
         checks |-> ck.recorded,
         adds |-> <<Sample("crud_read_duration", duration)>>
                  \o (IF success THEN <<Sample("crud_read_count", 1)>> ELSE <<>>)
                  \o <<Sample("crud_success_rate", BoolNum(success))>>,
         ret |-> [success |-> success, id |-> JNull, data |-> data]]

readResource(e, id, res) ==
    IF ~Truthy(id) THEN NoId("crud-read")
    ELSE
    LET call == get(e, <<"/products/">> \o ToStr(id), "USER", "crud-read", res)
        duration == res.ms
        success == res.status = 200
        data == safeJson(res)
        ck == check(<<Pred(<<"READ: status 200">>, res.status = 200),
                      Pred(<<"READ: has correct id">>, LooseEq(OptProp(data, "id"), id)),
                      Pred(<<"READ: response time OK">>, duration < DEFAULT_SLO.read.p95)>>)
    IN  [reqs |-> call.reqs,
         logs |-> call.logs \o
                  (IF ~success
                   THEN <<logError("crud-read", "Failed with status", res.status, "for ID")>>
                   ELSE <<>>),
         checks |-> ck.recorded,
         adds |-> <<Sample("crud_read_duration", duration), Sample("crud_read_count", 1),
                    Sample("crud_success_rate", BoolNum(success))>>,
         ret |-> [success |-> success, id |-> JNull, data |-> data]]

\* { ...originalData, name: `Updated ${randomString(5)}`, price, updatedAt }
updatePayload(originalData, rnd) ==
    JObj(Merge(Spread(originalData),
               [name |-> JStr(<<"Updated ", rnd>>), price |-> JNum(2),
                updatedAt |-> Str("now")]))

updateResource(e, id, originalData, rnd, res) ==
    IF ~Truthy(id) THEN NoId("crud-update")
    ELSE
    LET payload == updatePayload(originalData, rnd)
        call == put(e, <<"/products/">> \o ToStr(id), payload, "ADMIN", "crud-update", res)
        duration == res.ms
        success == Is2xx(res.status)
        data == safeJson(res)
        ck1 == check(<<Pred(<<"UPDATE: status 2xx">>, Is2xx(res.status)),
                       Pred(<<"UPDATE: response time OK">>, duration < DEFAULT_SLO.write.p95)>>)
        \* d.name === updatePayload.name || d.name !== originalData?.name
        ck2 == IF success /\ Truthy(data)
               THEN check(<<Pred(<<"UPDATE: name changed">>,
                                 \/ StrictEq(Prop(data, "name"), Prop(payload, "name"))
                                 \/ ~StrictEq(Prop(data, "name"), OptProp(originalData, "name")))>>)
               ELSE check(<<>>)
    IN  [reqs |-> call.reqs,
         logs |-> call.logs \o
                  (IF ~success
                   THEN <<logError("crud-update", "Failed with status", res.status, "for ID")>>
                   ELSE <<>>),
         checks |-> ck1.recorded \o ck2.recorded,
         adds |-> <<Sample("crud_update_duration", duration), Sample("crud_update_count", 1),
                    Sample("crud_success_rate", BoolNum(success))>>,
         ret |-> [success |-> success, id |-> JNull, data |-> data]]

\* (variant: only 204 No Content counts as a successful DELETE)
deleteResource_Only204(e, id, res) ==
    IF ~Truthy(id) THEN NoId("crud-delete")
    ELSE
    LET call == del(e, <<"/products/">> \o ToStr(id), "ADMIN", "crud-delete", res)
    IN  [reqs |-> call.reqs, logs |-> call.logs, checks |-> <<>>,
         adds |-> <<Sample("crud_delete_duration", res.ms), Sample("crud_delete_count", 1),
                    Sample("crud_success_rate", BoolNum(res.status = 204))>>,
         ret |-> [success |-> res.status = 204, id |-> JNull, data |-> JNull]]

deleteResource(e, id, res) ==
    IF ~Truthy(id) THEN NoId("crud-delete")
    ELSE
    LET call == del(e, <<"/products/">> \o ToStr(id), "ADMIN", "crud-delete", res)
        duration == res.ms
        success == Is2xx(res.status)
        ck == check(<<Pred(<<"DELETE: status 2xx">>, Is2xx(res.status)),
                      Pred(<<"DELETE: response time OK">>, duration < DEFAULT_SLO.write.p95)>>)
    IN  [reqs |-> call.reqs,
         logs |-> call.logs \o
                  (IF ~success
                   THEN <<logError("crud-delete", "Failed with status", res.status, "for ID")>>
                   ELSE <<>>),
         checks |-> ck.recorded,
         adds |-> <<Sample("crud_delete_duration", duration), Sample("crud_delete_count", 1),
                    Sample("crud_success_rate", BoolNum(success))>>,
         ret |-> [success |-> success, id |-> JNull, data |-> JNull]]

\* (variant: only a 200 counts as "still there")
verifyDeleted_Not200(e, id, res) ==
    LET call == get(e, <<"/products/">> \o ToStr(id), "USER", "crud-verify-deleted", res)
        ck == check(<<Pred(<<"VERIFY: resource is deleted (404)">>, res.status # 200)>>)
    IN  [reqs |-> call.reqs, logs |-> call.logs, checks |-> ck.recorded, adds |-> <<>>,
         ret |-> [success |-> res.status # 200, id |-> JNull, data |-> JNull]]

\* no guard on id here: the GET is always issued
verifyDeleted(e, id, res) ==
    LET call == get(e, <<"/products/">> \o ToStr(id), "USER", "crud-verify-deleted", res)
        isDeleted == res.status = 404
        ck == check(<<Pred(<<"VERIFY: resource is deleted (404)">>, res.status = 404)>>)
    IN  [reqs |-> call.reqs,
         logs |-> call.logs,
         checks |-> ck.recorded,
         adds |-> <<>>,
         ret |-> [success |-> isDeleted, id |-> JNull, data |-> JNull]]

-----------------------------------------------------------------------------
(* The target API: the responses a request can get *)

Product(id, name) == JObj([id |-> JNum(id), name |-> JStr(name)])

ResOk == Response(200, Body(TRUE, 40, Product(1, <<"Product ", "r">>)), 100)
ResCreated == Response(201, Body(TRUE, 40, Product(1, <<"Updated ", "r">>)), 1500)
ResNoId == Response(201, Body(TRUE, 20, JObj([name |-> JStr(<<"Product ", "r">>)])), 100)
ResHtml == Response(200, Body(TRUE, 250, JInvalid), 100)
ResNotFound == Response(404, Body(TRUE, 30, JObj([message |-> Str("Not found")])), 100)
ResError == Response(500, Body(FALSE, 0, JInvalid), 1500)

\* what the CRUD flow is answered with
CrudResponses == {ResOk, ResCreated, ResNoId, ResHtml, ResNotFound}

\* randomString(5)
RandomStrings == {"r"}

-----------------------------------------------------------------------------
(* A virtual user *)

IdleVU ==
    [pc |-> "idle",             \* where the VU is in the scenario function
     iter |-> 0,                \* iterations completed
     flowSuccess |-> TRUE,      \* locals of the default function
     createdId |-> JNull,
     resourceData |-> JNull,
     steps |-> <<>>,            \* operations called in this iteration
     net |-> <<>>,              \* requests issued, with the status each got
     logs |-> <<>>,             \* console.error lines
     checks |-> <<>>,           \* check results recorded
     adds |-> <<>>,             \* metric samples added
     args |-> <<>>,             \* the last library call: its arguments,
     res |-> JUndef,            \*   the response it worked on,
     ret |-> JUndef,            \*   the value it returned,
     raised |-> FALSE]          \*   whether an exception left it

ZeroMetrics == [m \in MetricNames |-> [n |-> 0, sum |-> 0]]

DefaultEnv ==
    [PROFILE |-> Unset, HOST |-> Unset, TOKEN_USER |-> Unset, TOKEN_ADMIN |-> Unset,
     TOKEN_SUPER_USER |-> Unset]

NoOptions == [loaded |-> FALSE]

\* no runner script is running
NoShell == [script |-> "none"]

\* what an operation did, appended to what the iteration did before
Exchanges(step, eff, res) ==
    [i \in 1..Len(eff.reqs) |->
        [step |-> step, req |-> eff.reqs[i], status |-> res.status, res |-> res]]

Did(u, step, eff, res) ==
    [u EXCEPT !.steps = @ \o <<step>>,
              !.net = @ \o Exchanges(step, eff, res),
              !.logs = @ \o eff.logs,
              !.checks = @ \o eff.checks,
              !.adds = @ \o eff.adds]

-----------------------------------------------------------------------------
(* tests/example/crud-operations.js: the default function, one action per
   blocking call (the VU is suspended in the http call and in the sleep that
   follows it) *)

\* (variant: flowSuccess lives outside the function and is not reset)
Begin_KeepsFlowSuccess(v) ==
    /\ vu[v].pc = "idle"
    /\ vu[v].iter < MaxIter
    /\ vu' = [vu EXCEPT ![v] =
                [IdleVU EXCEPT !.pc = "create", !.iter = vu[v].iter,
                               !.flowSuccess = vu[v].flowSuccess]]
    /\ UNCHANGED <<metrics, env, profiles, options, shell>>

\* the runtime calls the default function: its locals are fresh
Begin(v) ==
    /\ vu[v].pc = "idle"
    /\ vu[v].iter < MaxIter
    /\ vu' = [vu EXCEPT ![v] =
                [IdleVU EXCEPT !.pc = "create", !.iter = vu[v].iter]]
    /\ UNCHANGED <<metrics, env, profiles, options, shell>>

\* (variant: the early return after a failed CREATE counts nothing)
StepCreate_ReturnUncounted(v, Rs) ==
    /\ vu[v].pc = "create"
    /\ \E res \in Rs, rnd \in RandomStrings :
        LET eff == createResource(env, rnd, res)
            u == Did(vu[v], "CREATE", eff, res)
        IN  /\ vu' = [vu EXCEPT ![v] =
                        IF ~eff.ret.success
                        THEN [u EXCEPT !.flowSuccess = FALSE, !.pc = "idle", !.iter = @ + 1]
                        ELSE [u EXCEPT !.createdId = eff.ret.id,
                                       !.resourceData = eff.ret.data,
                                       !.pc = "read"]]
            /\ metrics' = AddSamples(metrics, eff.adds)
    /\ UNCHANGED config

\* (variant: the flow goes on after a failed CREATE)
StepCreate_NoReturn(v, Rs) ==
    /\ vu[v].pc = "create"
    /\ \E res \in Rs, rnd \in RandomStrings :
        LET eff == createResource(env, rnd, res)
            u == Did(vu[v], "CREATE", eff, res)
        IN  /\ vu' = [vu EXCEPT ![v] =
                        [u EXCEPT !.flowSuccess = eff.ret.success,
                                  !.createdId = eff.ret.id,
                                  !.resourceData = eff.ret.data,
                                  !.pc = "read"]]
            /\ metrics' = AddSamples(metrics, eff.adds)
    /\ UNCHANGED config

\* Step 1: CREATE; a failure ends the iteration
StepCreate(v, Rs) ==
    /\ vu[v].pc = "create"
    /\ \E res \in Rs, rnd \in RandomStrings :
        LET eff == createResource(env, rnd, res)
            u == Did(vu[v], "CREATE", eff, res)
            failed == <<Sample("crud_full_flow_failed", 1)>>
        IN  IF ~eff.ret.success
            THEN /\ vu' = [vu EXCEPT ![v] =
                            [u EXCEPT !.flowSuccess = FALSE,
                                      !.adds = @ \o failed,
                                      !.pc = "idle",
                                      !.iter = @ + 1]]
                 /\ metrics' = AddSamples(metrics, eff.adds \o failed)
            ELSE /\ vu' = [vu EXCEPT ![v] =
                            [u EXCEPT !.createdId = eff.ret.id,
                                      !.resourceData = eff.ret.data,
                                      !.pc = "read"]]
                 /\ metrics' = AddSamples(metrics, eff.adds)
    /\ UNCHANGED config

\* (variant: a failed READ ends the iteration, as a failed CREATE does)
StepRead_ReturnOnFailure(v, Rs) ==
    /\ vu[v].pc = "read"
    /\ \E res \in Rs :
        LET eff == readResource(env, vu[v].createdId, res)
            u == Did(vu[v], "READ", eff, res)
            failed == <<Sample("crud_full_flow_failed", 1)>>
        IN  IF ~eff.ret.success
            THEN /\ vu' = [vu EXCEPT ![v] =
                            [u EXCEPT !.flowSuccess = FALSE, !.adds = @ \o failed,
                                      !.pc = "idle", !.iter = @ + 1]]
                 /\ metrics' = AddSamples(metrics, eff.adds \o failed)
            ELSE /\ vu' = [vu EXCEPT ![v] =
                            [u EXCEPT !.resourceData =
                                          IF Truthy(eff.ret.data) THEN eff.ret.data ELSE @,
                                      !.pc = "update"]]
                 /\ metrics' = AddSamples(metrics, eff.adds)
    /\ UNCHANGED config

\* Step 2: READ; resourceData = readResult.data || resourceData
StepRead(v, Rs) ==
    /\ vu[v].pc = "read"
    /\ \E res \in Rs :
        LET eff == readResource(env, vu[v].createdId, res)
            u == Did(vu[v], "READ", eff, res)
        IN  /\ vu' = [vu EXCEPT ![v] =
                        [u EXCEPT !.flowSuccess = @ /\ eff.ret.success,
                                  !.resourceData =
                                      IF Truthy(eff.ret.data) THEN eff.ret.data ELSE @,
                                  !.pc = "update"]]
            /\ metrics' = AddSamples(metrics, eff.adds)
    /\ UNCHANGED config

\* Step 3: UPDATE
StepUpdate(v, Rs) ==
    /\ vu[v].pc = "update"
    /\ \E res \in Rs, rnd \in RandomStrings :
        LET eff == updateResource(env, vu[v].createdId, vu[v].resourceData, rnd, res)
            u == Did(vu[v], "UPDATE", eff, res)
        IN  /\ vu' = [vu EXCEPT ![v] =
                        [u EXCEPT !.flowSuccess = @ /\ eff.ret.success,
                                  !.pc = "verifyUpdate"]]
            /\ metrics' = AddSamples(metrics, eff.adds)
    /\ UNCHANGED config

\* Step 4: READ after UPDATE
StepVerifyUpdate(v, Rs) ==
    /\ vu[v].pc = "verifyUpdate"
    /\ \E res \in Rs :
        LET eff == readResource(env, vu[v].createdId, res)
            u == Did(vu[v], "READ", eff, res)
        IN  /\ vu' = [vu EXCEPT ![v] =
                        [u EXCEPT !.flowSuccess = @ /\ eff.ret.success,
                                  !.pc = "delete"]]
            /\ metrics' = AddSamples(metrics, eff.adds)
    /\ UNCHANGED config

\* Step 5: DELETE
StepDelete(v, Rs) ==
    /\ vu[v].pc = "delete"
    /\ \E res \in Rs :
        LET eff == deleteResource(env, vu[v].createdId, res)
            u == Did(vu[v], "DELETE", eff, res)
        IN  /\ vu' = [vu EXCEPT ![v] =
                        [u EXCEPT !.flowSuccess = @ /\ eff.ret.success,
                                  !.pc = "verifyDeleted"]]
            /\ metrics' = AddSamples(metrics, eff.adds)
    /\ UNCHANGED config

\* Step 6: VERIFY DELETED, then the flow is counted and the iteration ends
StepVerifyDeleted(v, Rs) ==
    /\ vu[v].pc = "verifyDeleted"
    /\ \E res \in Rs :
        LET eff == verifyDeleted(env, vu[v].createdId, res)
            u == Did(vu[v], "VERIFY_DELETED", eff, res)
            flowSuccess == vu[v].flowSuccess /\ eff.ret.success
            stillThere == IF ~eff.ret.success
                          THEN <<logError("crud-flow", "Resource still exists after delete", 0, "")>>
                          ELSE <<>>
            counted == IF flowSuccess
                       THEN <<Sample("crud_full_flow_success", 1)>>
                       ELSE <<Sample("crud_full_flow_failed", 1)>>
            ck == check(<<Pred(<<"CRUD flow completed successfully">>, flowSuccess)>>)
        IN  /\ vu' = [vu EXCEPT ![v] =
                        [u EXCEPT !.flowSuccess = flowSuccess,
                                  !.logs = @ \o stillThere,
                                  !.adds = @ \o counted,
                                  !.checks = @ \o ck.recorded,
                                  !.pc = "idle",
                                  !.iter = @ + 1]]
            /\ metrics' = AddSamples(metrics, eff.adds \o counted)
    /\ UNCHANGED config

-----------------------------------------------------------------------------
(* crud-operations.js run by one virtual user *)

Init ==
    /\ vu = [v \in VUs |-> IdleVU]
    /\ metrics = ZeroMetrics
    /\ shell = NoShell
    /\ env = DefaultEnv
    /\ profiles = LOAD_PROFILES
    /\ options = NoOptions

Next ==
    \/ Begin(1)
    \/ StepCreate(1, CrudResponses)
    \/ StepRead(1, CrudResponses)
    \/ StepUpdate(1, CrudResponses)
    \/ StepVerifyUpdate(1, CrudResponses)
    \/ StepDelete(1, CrudResponses)
    \/ StepVerifyDeleted(1, CrudResponses)

Spec == Init /\ [][Next]_vars

-----------------------------------------------------------------------------
(* IEEE-754 double arithmetic of the VU shares: vus * 0.7, Math.ceil.
   A double is a 53-bit significand m and an exponent e, its value m * 2^-e;
   the significand is kept in four 16-bit limbs, lowest first. *)

Limb == 2^16

D07 == [m |-> <<26214, 26214, 26214, 22>>, e |-> 53]    \* 0.7 = 0x1.6666666666666p-1
D05 == [m |-> <<0, 0, 0, 16>>, e |-> 53]                \* 0.5 = 0x1.0000000000000p-1
D03 == [m |-> <<13107, 13107, 13107, 19>>, e |-> 54]    \* 0.3 = 0x1.3333333333333p-2
D02 == [m |-> <<39322, 39321, 39321, 25>>, e |-> 55]    \* 0.2 = 0x1.999999999999ap-3
D01 == [m |-> <<39322, 39321, 39321, 25>>, e |-> 56]    \* 0.1 = 0x1.999999999999ap-4

\* limbs * k + carry, exact
RECURSIVE MulLimbs(_, _, _)
MulLimbs(ls, k, carry) ==
    IF ls = <<>> THEN <<>>
    ELSE LET t == Head(ls) * k + carry
         IN  <<t % Limb>> \o MulLimbs(Tail(ls), k, t \div Limb)

\* limbs + carry
RECURSIVE AddLimbs(_, _)
AddLimbs(ls, carry) ==
    IF ls = <<>> THEN <<>>
    ELSE LET t == Head(ls) + carry
         IN  <<t % Limb>> \o AddLimbs(Tail(ls), t \div Limb)

\* number of bits of a limb
BitLen(x) == CHOOSE n \in 0..16 : x < 2^n /\ (n = 0 \/ x >= 2^(n - 1))

\* the exact product rounded to 53 significant bits, ties to even
RoundDouble(ls) ==
    LET s == 48 + BitLen(ls[4]) - 53        \* bits to drop
        low == ls[1] % 2^s
        odd == (ls[1] \div 2^s) % 2 = 1
        up == s > 0 /\ (low * 2 > 2^s \/ (low * 2 = 2^s /\ odd))
        cut == <<ls[1] - low, ls[2], ls[3], ls[4]>>
    IN  IF s <= 0 THEN ls ELSE AddLimbs(cut, IF up THEN 2^s ELSE 0)

\* Math.ceil(k * d) for an integer k >= 0 and a double d in (0, 1)
CeilMul(k, d) ==
    IF k = 0 THEN 0
    ELSE LET ls == RoundDouble(MulLimbs(d.m, k, 0))
             unit == 2^(d.e - 48)
         IN  (ls[4] \div unit) +
             (IF ls[4] % unit # 0 \/ ls[3] # 0 \/ ls[2] # 0 \/ ls[1] # 0 THEN 1 ELSE 0)

\* Math.ceil(x * d): NaN when x is not a number
MathCeilMul(x, d) == IF x.t = "number" THEN JNum(CeilMul(x.v, d)) ELSE JNaN

-----------------------------------------------------------------------------
(* run-all.js: the options built when the script is loaded *)

\* vus: Math.ceil(vus * 0.7)
GetListVus(vus) == MathCeilMul(vus, D07)

\* vus: Math.ceil(vus * 0.2)
GetDetailsVus(vus) == MathCeilMul(vus, D02)

\* (variant: no floor of 1)
CreateVus_NoFloor(vus) == MathCeilMul(vus, D01)

\* vus: Math.ceil(vus * 0.1) || 1
CreateVus(vus) ==
    LET share == MathCeilMul(vus, D01)
    IN  IF Truthy(share) THEN share ELSE JNum(1)

Scenario(exec, vus, duration, startTime, testType, operation) ==
    [exec |-> exec, executor |-> "constant-vus", vus |-> vus, duration |-> duration,
     startTime |-> startTime, tags |-> [test_type |-> testType, operation |-> operation]]

\* (variant: 30% of the VUs for get_details)
RunAllScenarios_Details30(profile) ==
    LET vus == Prop(profile, "vus")
        duration == Prop(profile, "duration")
    IN  [get_list |-> Scenario("getListScenario", GetListVus(vus), duration, "0s",
                               "get-list", "read"),
         get_details |-> Scenario("getDetailsScenario", MathCeilMul(vus, D03), duration, "0s",
                                  "get-details", "read"),
         create |-> Scenario("createScenario", CreateVus(vus), duration, "10s",
                             "create", "write")]

RunAllScenarios(profile) ==
    LET vus == Prop(profile, "vus")
        duration == Prop(profile, "duration")
    IN  [get_list |-> Scenario("getListScenario", GetListVus(vus), duration, "0s",
                               "get-list", "read"),
         get_details |-> Scenario("getDetailsScenario", GetDetailsVus(vus), duration, "0s",
                                  "get-details", "read"),
         create |-> Scenario("createScenario", CreateVus(vus), duration, "10s",
                             "create", "write")]

\* (variant: the key of the list threshold is spelt with the scenario's name)
RunAllThresholds_ScenarioName ==
    (<<"http_req_failed">> :> << <<"rate<0.05">> >>) @@
    (<<"http_req_duration">> :> << <<"p(95)<2000">> >>) @@
    (<<"checks">> :> << <<"rate>0.90">> >>) @@
    (<<"http_req_duration", "test_type", "get_list">> :>
        << <<"p(95)<", NumStr(ENDPOINT_SLO.products.list.p95)>>,
           <<"p(99)<", NumStr(ENDPOINT_SLO.products.list.p99)>> >>) @@
    (<<"http_req_duration", "test_type", "get-details">> :>
        << <<"p(95)<", NumStr(ENDPOINT_SLO.products.details.p95)>>,
           <<"p(99)<", NumStr(ENDPOINT_SLO.products.details.p99)>> >>) @@
    (<<"http_req_duration", "test_type", "create">> :>
        << <<"p(95)<", NumStr(ENDPOINT_SLO.users.create.p95)>>,
           <<"p(99)<", NumStr(ENDPOINT_SLO.users.create.p99)>> >>) @@
    (<<"http_req_failed", "operation", "read">> :> << <<"rate<0.02">> >>) @@
    (<<"http_req_failed", "operation", "write">> :> << <<"rate<0.05">> >>)

\* options.thresholds of run-all.js
RunAllThresholds ==
    (<<"http_req_failed">> :> << <<"rate<0.05">> >>) @@
    (<<"http_req_duration">> :> << <<"p(95)<2000">> >>) @@
    (<<"checks">> :> << <<"rate>0.90">> >>) @@
    (<<"http_req_duration", "test_type", "get-list">> :>
        << <<"p(95)<", NumStr(ENDPOINT_SLO.products.list.p95)>>,
           <<"p(99)<", NumStr(ENDPOINT_SLO.products.list.p99)>> >>) @@
    (<<"http_req_duration", "test_type", "get-details">> :>
        << <<"p(95)<", NumStr(ENDPOINT_SLO.products.details.p95)>>,
           <<"p(99)<", NumStr(ENDPOINT_SLO.products.details.p99)>> >>) @@
    (<<"http_req_duration", "test_type", "create">> :>
        << <<"p(95)<", NumStr(ENDPOINT_SLO.users.create.p95)>>,
           <<"p(99)<", NumStr(ENDPOINT_SLO.users.create.p99)>> >>) @@
    (<<"http_req_failed", "operation", "read">> :> << <<"rate<0.02">> >>) @@
    (<<"http_req_failed", "operation", "write">> :> << <<"rate<0.05">> >>)

\* k6 run run-all.js: the init code of the script
LoadRunAll ==
    /\ ~options.loaded
    /\ options' = [loaded |-> TRUE,
                   script |-> "run-all.js",
                   profile |-> getProfile(env, profiles),
                   scenarios |-> RunAllScenarios(getProfile(env, profiles)),
                   thresholds |-> RunAllThresholds]
    /\ UNCHANGED <<vu, metrics, env, profiles, shell>>

\* -e PROFILE=...
ProfileArgs == {Unset, "", "SMOKE", "LIGHT", "MEDIUM", "HEAVY", "CUSTOM", "smoke", "constructor"}

\* LOAD_PROFILES as shipped, or with a profile of the user's own
CustomProfiles(n) ==
    [name \in DOMAIN LOAD_PROFILES \cup {"CUSTOM"} |->
        IF name = "CUSTOM" THEN JObj([vus |-> JNum(n), duration |-> Str("1m")])
        ELSE LOAD_PROFILES[name]]

InitRunAll ==
    /\ vu = [v \in VUs |-> IdleVU]
    /\ metrics = ZeroMetrics
    /\ shell = NoShell
    /\ \E name \in ProfileArgs : env = [DefaultEnv EXCEPT !.PROFILE = name]
    /\ profiles \in {LOAD_PROFILES} \cup {CustomProfiles(n) : n \in 0..MaxVus}
    /\ options = NoOptions

NextRunAll == LoadRunAll

SpecRunAll == InitRunAll /\ [][NextRunAll]_vars

-----------------------------------------------------------------------------
(* config/slo.js: a script that builds its thresholds from an SLO record *)

\* the SLO records a script can pass: the shipped ones are among them
SloRecords ==
    {Slo(p95, p99, errorRate) :
        p95 \in {150, 200, 300, 500, 800, 1000},
        p99 \in {400, 500, 800, 1000, 1200, 1500, 2000, 2500},
        errorRate \in {"0.005", "0.01", "0.02"}}

InitSlo ==
    /\ vu = [v \in VUs |-> IdleVU]
    /\ metrics = ZeroMetrics
    /\ shell = NoShell
    /\ env = DefaultEnv
    /\ profiles = LOAD_PROFILES
    /\ \E slo \in SloRecords : options = [loaded |-> FALSE, slo |-> slo]

\* const thresholds = generateThresholds(slo)
GenerateThresholds ==
    /\ ~options.loaded
    /\ options' = [loaded |-> TRUE,
                   script |-> "slo.js",
                   slo |-> options.slo,
                   thresholds |-> generateThresholds(options.slo)]
    /\ UNCHANGED <<vu, metrics, env, profiles, shell>>

NextSlo == GenerateThresholds

SpecSlo == InitSlo /\ [][NextSlo]_vars

-----------------------------------------------------------------------------
(* utils/checks.js: the validators.  Each yields the check results it
   recorded, the console lines it wrote, the boolean it returns and whether
   an exception left it. *)

\* Array.isArray(x)
IsArray(x) == x.t = "array"

\* x > n and x <= n: undefined and NaN compare false with every number
Gt(x, n) == x.t = "number" /\ x.v > n
Le(x, n) == x.t = "number" /\ x.v <= n

\* a[i], i from 0
At(a, i) == IF IsArray(a) /\ i < Len(a.v) THEN a.v[i + 1] ELSE JUndef

\* x !== undefined
Defined(x) == x.t # "undefined"

\* a predicate that reads a property of d: a TypeError when d is null
PredOn(d, name, truthy) == IF Throws(d) THEN PredThrow(name) ELSE Pred(name, truthy)

\* a block of statements that did nothing
Skipped == [checks |-> <<>>, logs |-> <<>>, ret |-> TRUE, raised |-> FALSE]

\* a block left by an exception (of res.json(), or of a property read)
Raised == [checks |-> <<>>, logs |-> <<>>, ret |-> FALSE, raised |-> TRUE]

\* return check(data, checks)
Checked(ck) == [checks |-> ck.recorded, logs |-> <<>>, ret |-> ck.ret, raised |-> ck.threw]

\* console.error(`Failed to parse ${context} response:`, e)
consoleError(text, context) == [context |-> context, text |-> text, status |-> 0, detail |-> "e"]

\* try { block } catch (e) { console.error(...); return false; }
TryOrFalse(block, line) ==
    IF block.raised
    THEN [checks |-> block.checks, logs |-> block.logs \o <<line>>, ret |-> FALSE,
          raised |-> FALSE]
    ELSE block

checkStatus(res, expectedStatus) ==
    Checked(check(<<Pred(<<"status is ", NumStr(expectedStatus)>>,
                         res.status = expectedStatus)>>))

checkSuccess(res) ==
    Checked(check(<<Pred(<<"status is 2xx">>, res.status >= 200 /\ res.status < 300)>>))

\* (variant: any items value that is truthy counts as not empty)
checkListResponse_EmptyAllowed(res, context) ==
    LET d == res.body.json
        items == Prop(d, "items")
    IN  TryOrFalse(
            IF JsonThrows(res) THEN Raised
            ELSE Checked(check(
                <<PredOn(d, <<context, ": has items array">>, Defined(items) /\ IsArray(items)),
                  PredOn(d, <<context, ": items not empty">>, Truthy(items)),
                  PredOn(d, <<context, ": valid page size">>,
                         Truthy(items) /\ Le(Prop(items, "length"), 100))>>)),
            consoleError("Failed to parse response", context))

checkListResponse(res, context) ==
    LET d == res.body.json
        items == Prop(d, "items")
    IN  TryOrFalse(
            IF JsonThrows(res) THEN Raised
            ELSE Checked(check(
                <<PredOn(d, <<context, ": has items array">>, Defined(items) /\ IsArray(items)),
                  PredOn(d, <<context, ": items not empty">>,
                         Truthy(items) /\ Gt(Prop(items, "length"), 0)),
                  PredOn(d, <<context, ": valid page size">>,
                         Truthy(items) /\ Le(Prop(items, "length"), 100))>>)),
            consoleError("Failed to parse response", context))

\* requiredFields: the field names, in order
checkItemResponse(res, requiredFields, context) ==
    LET d == res.body.json
        isObject == Pred(<<context, ": response is object">>,
                         d.t # "null" /\ TypeOf(d) = "object" /\ ~IsArray(d))
        hasField == [i \in 1..Len(requiredFields) |->
                        PredOn(d, <<context, ": has ", requiredFields[i]>>,
                               Defined(Prop(d, requiredFields[i])))]
    IN  TryOrFalse(
            IF JsonThrows(res) THEN Raised
            ELSE Checked(check(<<isObject>> \o hasField)),
            consoleError("Failed to parse response", context))

\* fieldTypes: Object.entries(fieldTypes), the [field, expectedType] pairs in order
checkFieldTypes(res, fieldTypes, context) ==
    LET d == res.body.json
        isType == [i \in 1..Len(fieldTypes) |->
                      LET field == fieldTypes[i].field
                          expectedType == fieldTypes[i].type
                          value == Prop(d, field)
                      IN  PredOn(d, <<context, ": ", field, " is ", expectedType>>,
                                 IF expectedType = "array" THEN IsArray(value)
                                 ELSE TypeOf(value) = expectedType)]
    IN  TryOrFalse(
            IF JsonThrows(res) THEN Raised ELSE Checked(check(isType)),
            consoleError("Failed to parse response", context))

\* the item validators a caller passes
ItemValidators == {"hasId", "accept", "reject"}

\* itemValidator(item)
Validate(itemValidator, item) ==
    CASE itemValidator = "accept" -> "pass"          \* () => true
      [] itemValidator = "reject" -> "fail"          \* () => false
      [] OTHER ->                                    \* (item) => item.id !== undefined
            IF Throws(item) THEN "throw"
            ELSE IF Defined(Prop(item, "id")) THEN "pass" ELSE "fail"

checkListItemStructure(res, itemValidator, context) ==
    LET data == res.body.json
        items == Prop(data, "items")
    IN  TryOrFalse(
            IF JsonThrows(res) \/ Throws(data) THEN Raised
            ELSE IF ~Truthy(items) \/ ~IsArray(items) \/ Len(items.v) = 0
                 THEN [Skipped EXCEPT !.ret = FALSE]
            ELSE Checked(check(<<[name |-> <<context, ": valid structure">>,
                                  r |-> Validate(itemValidator, At(items, 0))]>>)),
            consoleError("Failed to validate", context))

\* (variant: a body that cannot be parsed fails the validation)
checkErrorResponse_ParseFails(res, expectedStatus, context) ==
    LET st == checkStatus(res, expectedStatus)
        d == res.body.json
        block == IF JsonThrows(res) THEN Raised
                 ELSE Checked(check(
                     <<PredOn(d, <<context, ": has error message">>,
                              Defined(Prop(d, "message")) \/ Defined(Prop(d, "error")))>>))
    IN  [checks |-> st.checks \o block.checks,
         logs |-> <<>>,
         ret |-> IF block.raised THEN FALSE ELSE block.ret /\ st.ret,
         raised |-> FALSE]

\* the catch block is empty ("Error response might not be JSON"): allPassed
\* keeps the result of the status check
checkErrorResponse(res, expectedStatus, context) ==
    LET st == checkStatus(res, expectedStatus)
        d == res.body.json
        block == IF JsonThrows(res) THEN Raised
                 ELSE Checked(check(
                     <<PredOn(d, <<context, ": has error message">>,
                              Defined(Prop(d, "message")) \/ Defined(Prop(d, "error")))>>))
    IN  [checks |-> st.checks \o block.checks,
         logs |-> <<>>,
         ret |-> IF block.raised THEN st.ret ELSE block.ret /\ st.ret,
         raised |-> FALSE]

-----------------------------------------------------------------------------
(* utils/checks.js: the composite validators.  allPassed = f(res) && allPassed
   calls f whatever allPassed is. *)

\* what two validators called one after the other did; no exception leaves them
Both(a, b) ==
    [checks |-> a.checks \o b.checks, logs |-> a.logs \o b.logs,
     ret |-> b.ret /\ a.ret, raised |-> FALSE]

\* (variant: the structure checks are short-circuited by a failed status check
\* only in the result: they run whatever the status)
checkGetListEndpoint_AnyStatus(res, itemValidator, context) ==
    LET list == Both(checkStatus(res, 200), checkListResponse(res, context))
    IN  IF itemValidator # "null"
        THEN Both(list, checkListItemStructure(res, itemValidator, <<context, "-item">>))
        ELSE list

\* itemValidator: one of ItemValidators, or "null" when none is given
checkGetListEndpoint(res, itemValidator, context) ==
    LET status == checkStatus(res, 200)
    IN  IF res.status = 200
        THEN LET list == Both(status, checkListResponse(res, context))
             IN  IF itemValidator # "null"
                 THEN Both(list, checkListItemStructure(res, itemValidator,
                                                        <<context, "-item">>))
                 ELSE list
        ELSE Both(status, Skipped)

checkGetItemEndpoint(res, requiredFields, context) ==
    LET status == checkStatus(res, 200)
    IN  IF res.status = 200
        THEN Both(status, checkItemResponse(res, requiredFields, context))
        ELSE Both(status, Skipped)

\* the structure check runs on a 2xx that has a body (res.body is truthy)
checkPostEndpoint(res, requiredFields, context) ==
    LET status == Checked(check(<<Pred(<<context, ": status is 2xx">>,
                                       res.status >= 200 /\ res.status < 300)>>))
    IN  IF res.status >= 200 /\ res.status < 300 /\ BodyTruthy(res)
        THEN Both(status, checkItemResponse(res, requiredFields, context))
        ELSE Both(status, Skipped)

-----------------------------------------------------------------------------
(* utils/http-utils.js: getWithParams *)

\* encodeURIComponent of a piece of text: the reserved characters are escaped,
\* letters and digits stay
encodeURIComponent(s) ==
    CASE s = " " -> "%20"
      [] s = "&" -> "%26"
      [] s = "=" -> "%3D"
      [] OTHER -> s

\* params: Object.entries(params), the [k, v] pairs in order
RECURSIVE QueryString(_)
QueryString(params) ==
    IF params = <<>> THEN <<>>
    ELSE LET p == Head(params)
             rest == QueryString(Tail(params))
             value == ToStr(p.v)
         IN  IF p.v.t \in {"null", "undefined"} THEN rest
             ELSE <<encodeURIComponent(p.k), "=">>
                  \o [i \in 1..Len(value) |-> encodeURIComponent(value[i])]
                  \o (IF rest = <<>> THEN <<>> ELSE <<"&">> \o rest)

getWithParams(e, path, params, role, context, res) ==
    LET queryString == QueryString(params)
        fullPath == IF queryString # <<>> THEN path \o <<"?">> \o queryString ELSE path
    IN  get(e, fullPath, role, context, res)

-----------------------------------------------------------------------------
(* tests/example/get-endpoint.js and post-endpoint.js: the test functions *)

listTestCases ==
    <<[pageSize |-> 10, description |-> "small page"],
      [pageSize |-> 25, description |-> "medium page"],
      [pageSize |-> 50, description |-> "large page"]>>

\* randomInt(1, 5): the ends of the range
PageNumbers == {1, 5}

testListEndpoint(e, testCase, pageNumber, res) ==
    LET call == getWithParams(e, <<"/products">>,
                              <<[k |-> "pageNumber", v |-> JNum(pageNumber)],
                                [k |-> "pageSize", v |-> JNum(testCase.pageSize)]>>,
                              "USER", "get-list", res)
        duration == res.ms
        failed == res.status # 200
        st == checkStatus(res, 200)
        lr == IF res.status = 200 THEN checkListResponse(res, "products") ELSE Skipped
        data == res.body.json
        items == Prop(data, "items")
        item == At(items, 0)
        \* try { const data = res.json(); if (data.items && data.items.length > 0) check(...) }
        first == IF res.status # 200 THEN Skipped
                 ELSE IF JsonThrows(res) \/ Throws(data) THEN Raised
                 ELSE IF Truthy(items) /\ Gt(Prop(items, "length"), 0)
                      THEN Checked(check(
                          <<PredOn(item, <<"item has id">>, Defined(Prop(item, "id"))),
                            PredOn(item, <<"item has name">>, Defined(Prop(item, "name"))),
                            PredOn(item, <<"item has price">>, Defined(Prop(item, "price")))>>))
                 ELSE Skipped
    IN  [reqs |-> call.reqs,
         logs |-> call.logs
                  \o (IF failed
                      THEN <<logError("get-list", "Failed with status", res.status,
                                      testCase.description)>>
                      ELSE <<>>)
                  \o lr.logs
                  \* catch (e) { logError('get-list', `JSON parsing failed: ...`) }
                  \o (IF first.raised
                      THEN <<logError("get-list", "JSON parsing failed", 0, "e.message")>>
                      ELSE <<>>),
         checks |-> st.checks \o lr.checks \o first.checks,
         adds |-> <<Sample("get_list_requests", 1), Sample("get_list_duration", duration)>>
                  \o (IF failed THEN <<Sample("get_list_errors", 1)>> ELSE <<>>),
         ret |-> JUndef]

invalidPayloads ==
    <<[payload |-> JObj(NoFields), description |-> "empty payload"],
      [payload |-> JObj([name |-> JStr(<<>>)]), description |-> "empty name"],
      [payload |-> JObj([name |-> Str("a x 1000")]), description |-> "too long name"]>>

\* (variant: only message and error count as an error message)
testInvalidPayload_MessageOrError(e, testCase, res) ==
    LET call == post(e, <<"/products">>, testCase.payload, "ADMIN", "post-invalid", res)
        data == res.body.json
        hasMessage == /\ ~JsonThrows(res)
                      /\ ~Throws(data)
                      /\ (Defined(Prop(data, "message")) \/ Defined(Prop(data, "error")))
        ck == check(<<Pred(<<testCase.description, ": returns 4xx">>,
                           res.status >= 400 /\ res.status < 500),
                      Pred(<<testCase.description, ": has error message">>, hasMessage)>>)
    IN  [reqs |-> call.reqs, logs |-> call.logs, checks |-> ck.recorded, adds |-> <<>>,
         ret |-> JUndef]

testInvalidPayload(e, testCase, res) ==
    LET call == post(e, <<"/products">>, testCase.payload, "ADMIN", "post-invalid", res)
        data == res.body.json
        \* try { const data = r.json(); return ... } catch { return false }
        hasMessage == /\ ~JsonThrows(res)
                      /\ ~Throws(data)
                      /\ \/ Defined(Prop(data, "message"))
                         \/ Defined(Prop(data, "error"))
                         \/ Defined(Prop(data, "errors"))
        ck == check(<<Pred(<<testCase.description, ": returns 4xx">>,
                           res.status >= 400 /\ res.status < 500),
                      Pred(<<testCase.description, ": has error message">>, hasMessage)>>)
    IN  [reqs |-> call.reqs,
         logs |-> call.logs,
         checks |-> ck.recorded,
         adds |-> <<>>,
         ret |-> JUndef]

\* post-endpoint.js: the payload complexities; description, tags and
\* attributes are added to the standard payload of the complex one
payloadTypes == <<"minimal", "standard", "complex">>

generator(type, rnd) ==
    CASE type = "minimal" -> JObj([name |-> JStr(<<"Product ", rnd>>)])
      [] type = "standard" -> createProductPayload(rnd)
      [] type = "complex" ->
            JObj(Merge(Spread(createProductPayload(rnd)),
                       [description |-> Str(rnd),
                        tags |-> JArr(<<Str("tag1"), Str("tag2"), Str("tag3")>>),
                        attributes |-> JObj([color |-> Str("red"), size |-> Str("large"),
                                             weight |-> JNum(1)])]))

\* (variant: a created item is counted only when the response carries its id)
testCreateEndpoint_ItemsOnId(e, type, rnd, res) ==
    LET call == post(e, <<"/products">>, generator(type, rnd), "ADMIN", "post-create", res)
        duration == res.ms
        isSuccess == res.status >= 200 /\ res.status < 300
        slo == ENDPOINT_SLO.users.create
        ck == check(<<Pred(<<"status is 2xx">>, isSuccess),
                      Pred(<<type, " payload accepted">>, isSuccess),
                      Pred(<<"response time acceptable">>, duration < slo.p95)>>)
        structure == IF isSuccess THEN checkPostEndpoint(res, <<"id">>, "product-create")
                     ELSE Skipped
        createdId == extractId(res, "id")
        valid == IF isSuccess /\ Truthy(createdId)
                 THEN Checked(check(<<Pred(<<"created resource has valid id">>,
                                           createdId.t \notin {"null", "undefined"})>>))
                 ELSE Skipped
    IN  [reqs |-> call.reqs,
         logs |-> call.logs
                  \o (IF ~isSuccess
                      THEN <<logError("post-create", "Failed with status", res.status, type)>>
                      ELSE <<>>)
                  \o structure.logs,
         checks |-> ck.recorded \o structure.checks \o valid.checks,
         adds |-> <<Sample("post_create_requests", 1), Sample("post_create_duration", duration)>>
                  \o (IF ~isSuccess THEN <<Sample("post_create_errors", 1)>>
                      ELSE IF Truthy(createdId) THEN <<Sample("post_created_items", 1)>>
                      ELSE <<>>),
         ret |-> createdId]

\* the counters are added right after the request, before any check:
\* createErrors on a status that is no 2xx, createdItems otherwise
testCreateEndpoint(e, type, rnd, res) ==
    LET call == post(e, <<"/products">>, generator(type, rnd), "ADMIN", "post-create", res)
        duration == res.ms
        isSuccess == res.status >= 200 /\ res.status < 300
        slo == ENDPOINT_SLO.users.create
        ck == check(<<Pred(<<"status is 2xx">>, isSuccess),
                      Pred(<<type, " payload accepted">>, isSuccess),
                      Pred(<<"response time acceptable">>, duration < slo.p95)>>)
        structure == IF isSuccess THEN checkPostEndpoint(res, <<"id">>, "product-create")
                     ELSE Skipped
        createdId == extractId(res, "id")
        \* if (createdId) check(res, { 'created resource has valid id': ... })
        valid == IF isSuccess /\ Truthy(createdId)
                 THEN Checked(check(<<Pred(<<"created resource has valid id">>,
                                           createdId.t \notin {"null", "undefined"})>>))
                 ELSE Skipped
    IN  [reqs |-> call.reqs,
         logs |-> call.logs
                  \o (IF ~isSuccess
                      THEN <<logError("post-create", "Failed with status", res.status, type)>>
                      ELSE <<>>)
                  \o structure.logs,
         checks |-> ck.recorded \o structure.checks \o valid.checks,
         adds |-> <<Sample("post_create_requests", 1), Sample("post_create_duration", duration)>>
                  \o (IF ~isSuccess THEN <<Sample("post_create_errors", 1)>>
                      ELSE <<Sample("post_created_items", 1)>>),
         \* return extractId(res)
         ret |-> createdId]

\* get-endpoint.js: the ids of setup(), or [1, 2, 3] when there are none
FallbackIds == <<1, 2, 3>>

\* itemIds[randomInt(0, itemIds.length - 1)], pick being the random index
testDetailsEndpoint(e, itemIds, pick, res) ==
    LET ids == IF itemIds = <<>> THEN FallbackIds ELSE itemIds
        itemId == ids[pick + 1]
        call == get(e, <<"/products/">> \o ToStr(JNum(itemId)), "USER", "get-details", res)
        duration == res.ms
        failed == res.status # 200
        st == checkStatus(res, 200)
        item == IF res.status = 200
                THEN checkItemResponse(res, <<"id", "name">>, "product-details")
                ELSE Skipped
    IN  [reqs |-> call.reqs,
         logs |-> call.logs
                  \o (IF failed
                      THEN <<logError("get-details", "Failed with status", res.status,
                                      NumStr(itemId))>>
                      ELSE <<>>)
                  \o item.logs,
         checks |-> st.checks \o item.checks,
         adds |-> <<Sample("get_details_requests", 1), Sample("get_details_duration", duration)>>
                  \o (IF failed THEN <<Sample("get_details_errors", 1)>> ELSE <<>>),
         ret |-> JUndef]

-----------------------------------------------------------------------------
(* The bodies and statuses the library and the endpoint tests are given *)

\* text that is no JSON, of len characters
BodyText(len) == Body(TRUE, len, JInvalid)
\* no body at all: res.body is null
BodyNull == Body(FALSE, 0, JInvalid)
BodyJson(json) == Body(TRUE, 20, json)

Item == JObj([id |-> JNum(1), name |-> Str("x"), price |-> JNum(5)])
ItemList == JObj([items |-> JArr(<<Item>>)])
EmptyList == JObj([items |-> JArr(<<>>)])

JsonValues ==
    {JNull, JNum(5), JArr(<<>>), JObj(NoFields),
     ItemList, EmptyList, JObj([items |-> JArr(<<JNull>>)]), JObj([items |-> JNum(5)]),
     Item,
     JObj([message |-> Str("Invalid")]), JObj([error |-> JNull]),
     JObj([errors |-> JArr(<<Str("name")>>)])}

Bodies == {BodyText(250), BodyText(0), BodyNull} \cup {BodyJson(j) : j \in JsonValues}

\* 0: the request got no response at all
Statuses == {0, 200, 302, 399, 400, 404, 500}

Responses(statuses, bodies) == {Response(s, b, 100) : s \in statuses, b \in bodies}

CheckResponses == Responses({200, 404, 500}, Bodies)
EndpointResponses == Responses({200, 399, 400, 499, 500}, Bodies)
FacadeResponses == Responses(Statuses, {BodyText(250), BodyText(30), BodyNull})

Roles == {"USER", "ADMIN", "GUEST"}

-----------------------------------------------------------------------------
(* A script that calls the library: one action per call *)

CanCall(v) == vu[v].pc = "idle" /\ vu[v].iter < MaxIter

\* the VU after a call of a validator
Validated(u, fn, args, res, out) ==
    [IdleVU EXCEPT !.iter = u.iter + 1, !.steps = <<fn>>, !.args = args, !.res = res,
                   !.logs = out.logs, !.checks = out.checks, !.ret = JBool(out.ret),
                   !.raised = out.raised]

CallCheckListResponse(v, Rs) ==
    /\ CanCall(v)
    /\ \E res \in Rs :
        vu' = [vu EXCEPT ![v] = Validated(@, "checkListResponse", [context |-> "list"], res,
                                          checkListResponse(res, "list"))]
    /\ UNCHANGED <<metrics, env, profiles, options, shell>>

CallCheckItemResponse(v, Rs) ==
    /\ CanCall(v)
    /\ \E res \in Rs, requiredFields \in {<<>>, <<"id">>, <<"id", "name">>} :
        vu' = [vu EXCEPT ![v] = Validated(@, "checkItemResponse",
                                          [requiredFields |-> requiredFields], res,
                                          checkItemResponse(res, requiredFields, "item"))]
    /\ UNCHANGED <<metrics, env, profiles, options, shell>>

CallCheckFieldTypes(v, Rs) ==
    /\ CanCall(v)
    /\ \E res \in Rs,
          fieldTypes \in {<<>>, <<[field |-> "id", type |-> "number"],
                                  [field |-> "items", type |-> "array"]>>} :
        vu' = [vu EXCEPT ![v] = Validated(@, "checkFieldTypes", [fieldTypes |-> fieldTypes],
                                          res, checkFieldTypes(res, fieldTypes, "response"))]
    /\ UNCHANGED <<metrics, env, profiles, options, shell>>

CallCheckListItemStructure(v, Rs) ==
    /\ CanCall(v)
    /\ \E res \in Rs, itemValidator \in ItemValidators :
        vu' = [vu EXCEPT ![v] = Validated(@, "checkListItemStructure",
                                          [itemValidator |-> itemValidator], res,
                                          checkListItemStructure(res, itemValidator,
                                                                 "list-item"))]
    /\ UNCHANGED <<metrics, env, profiles, options, shell>>

CallCheckErrorResponse(v, Rs) ==
    /\ CanCall(v)
    /\ \E res \in Rs, expectedStatus \in {400, 404, 500} :
        vu' = [vu EXCEPT ![v] = Validated(@, "checkErrorResponse",
                                          [expectedStatus |-> expectedStatus], res,
                                          checkErrorResponse(res, expectedStatus, "error"))]
    /\ UNCHANGED <<metrics, env, profiles, options, shell>>

NextChecks ==
    \/ CallCheckListResponse(1, CheckResponses)
    \/ CallCheckItemResponse(1, CheckResponses)
    \/ CallCheckFieldTypes(1, CheckResponses)
    \/ CallCheckListItemStructure(1, CheckResponses)
    \/ CallCheckErrorResponse(1, CheckResponses)

SpecChecks == Init /\ [][NextChecks]_vars

-----------------------------------------------------------------------------
(* A script that calls the request wrappers: one action per call *)

\* the VU after a call of a wrapper that the runtime answered with res
Requested(u, fn, role, res, call) ==
    [IdleVU EXCEPT !.iter = u.iter + 1, !.steps = <<fn>>, !.args = [role |-> role],
                   !.res = res,
                   !.net = Exchanges(fn, call, res), !.logs = call.logs, !.ret = call.ret]

Payloads == {JObj(NoFields), JObj([name |-> Str("x")])}

CallGet(v, Rs) ==
    /\ CanCall(v)
    /\ \E res \in Rs, role \in Roles :
        vu' = [vu EXCEPT ![v] =
                 Requested(@, "get", role, res, get(env, <<"/products">>, role, "get", res))]
    /\ UNCHANGED <<metrics, env, profiles, options, shell>>

CallPost(v, Rs) ==
    /\ CanCall(v)
    /\ \E res \in Rs, role \in Roles, payload \in Payloads :
        vu' = [vu EXCEPT ![v] =
                 Requested(@, "post", role, res,
                           post(env, <<"/products">>, payload, role, "post", res))]
    /\ UNCHANGED <<metrics, env, profiles, options, shell>>

CallPut(v, Rs) ==
    /\ CanCall(v)
    /\ \E res \in Rs, role \in Roles, payload \in Payloads :
        vu' = [vu EXCEPT ![v] =
                 Requested(@, "put", role, res,
                           put(env, <<"/products/", "1">>, payload, role, "put", res))]
    /\ UNCHANGED <<metrics, env, profiles, options, shell>>

CallPatch(v, Rs) ==
    /\ CanCall(v)
    /\ \E res \in Rs, role \in Roles, payload \in Payloads :
        vu' = [vu EXCEPT ![v] =
                 Requested(@, "patch", role, res,
                           patch(env, <<"/products/", "1">>, payload, role, "patch", res))]
    /\ UNCHANGED <<metrics, env, profiles, options, shell>>

CallDel(v, Rs) ==
    /\ CanCall(v)
    /\ \E res \in Rs, role \in Roles :
        vu' = [vu EXCEPT ![v] =
                 Requested(@, "del", role, res,
                           del(env, <<"/products/", "1">>, role, "delete", res))]
    /\ UNCHANGED <<metrics, env, profiles, options, shell>>

CallDelWithBody(v, Rs) ==
    /\ CanCall(v)
    /\ \E res \in Rs, role \in Roles, payload \in Payloads :
        vu' = [vu EXCEPT ![v] =
                 Requested(@, "delWithBody", role, res,
                           delWithBody(env, <<"/products/", "1">>, payload, role, "delete",
                                       res))]
    /\ UNCHANGED <<metrics, env, profiles, options, shell>>

NextFacade ==
    \/ CallGet(1, FacadeResponses)
    \/ CallPost(1, FacadeResponses)
    \/ CallPut(1, FacadeResponses)
    \/ CallPatch(1, FacadeResponses)
    \/ CallDel(1, FacadeResponses)
    \/ CallDelWithBody(1, FacadeResponses)

SpecFacade == Init /\ [][NextFacade]_vars

-----------------------------------------------------------------------------
(* The request wrappers under the settings of the environment *)

\* -e HOST=...
HostArgs ==
    {Unset, "", "PROD", "DEV", "STAGING", "LOCAL", "http://10.0.0.1:8080", "prod",
     "constructor"}

\* -e TOKEN_USER=...
TokenArgs == {Unset, "secret"}

EnvResponses == Responses({200, 500}, {BodyNull})

InitEnv ==
    /\ vu = [v \in VUs |-> IdleVU]
    /\ metrics = ZeroMetrics
    /\ shell = NoShell
    /\ \E host \in HostArgs, token \in TokenArgs :
        env = [DefaultEnv EXCEPT !.HOST = host, !.TOKEN_USER = token]
    /\ profiles = LOAD_PROFILES
    /\ options = NoOptions

NextEnv ==
    \/ CallGet(1, EnvResponses)
    \/ CallPost(1, EnvResponses)
    \/ CallPut(1, EnvResponses)
    \/ CallPatch(1, EnvResponses)
    \/ CallDel(1, EnvResponses)
    \/ CallDelWithBody(1, EnvResponses)

SpecEnv == InitEnv /\ [][NextEnv]_vars

-----------------------------------------------------------------------------
(* get-endpoint.js and post-endpoint.js run by one virtual user: one action
   per call of a test function *)

\* the VU after a test function that was answered with res
Tested(u, fn, res, eff) ==
    Did([IdleVU EXCEPT !.iter = u.iter + 1, !.res = res], fn, eff, res)

TestListEndpoint(v, Rs) ==
    /\ CanCall(v)
    /\ \E res \in Rs, c \in DOMAIN listTestCases, pageNumber \in PageNumbers :
        LET eff == testListEndpoint(env, listTestCases[c], pageNumber, res)
        IN  /\ vu' = [vu EXCEPT ![v] = Tested(@, "testListEndpoint", res, eff)]
            /\ metrics' = AddSamples(metrics, eff.adds)
    /\ UNCHANGED config

TestInvalidPayload(v, Rs) ==
    /\ CanCall(v)
    /\ \E res \in Rs, c \in DOMAIN invalidPayloads :
        LET eff == testInvalidPayload(env, invalidPayloads[c], res)
        IN  /\ vu' = [vu EXCEPT ![v] = Tested(@, "testInvalidPayload", res, eff)]
            /\ metrics' = AddSamples(metrics, eff.adds)
    /\ UNCHANGED config

\* the ids setup() hands to the details test: none, or those of the list
ItemIdLists == {<<>>, <<7, 8>>}

TestCreateEndpoint(v, Rs) ==
    /\ CanCall(v)
    /\ \E res \in Rs, c \in DOMAIN payloadTypes, rnd \in RandomStrings :
        LET eff == testCreateEndpoint(env, payloadTypes[c], rnd, res)
        IN  /\ vu' = [vu EXCEPT ![v] = Tested(@, "testCreateEndpoint", res, eff)]
            /\ metrics' = AddSamples(metrics, eff.adds)
    /\ UNCHANGED config

TestDetailsEndpoint(v, Rs) ==
    /\ CanCall(v)
    /\ \E res \in Rs, itemIds \in ItemIdLists :
        \E pick \in {0, Len(IF itemIds = <<>> THEN FallbackIds ELSE itemIds) - 1} :
            LET eff == testDetailsEndpoint(env, itemIds, pick, res)
            IN  /\ vu' = [vu EXCEPT ![v] = Tested(@, "testDetailsEndpoint", res, eff)]
                /\ metrics' = AddSamples(metrics, eff.adds)
    /\ UNCHANGED config

NextEndpoints ==
    \/ TestListEndpoint(1, EndpointResponses)
    \/ TestInvalidPayload(1, EndpointResponses)

SpecEndpoints == Init /\ [][NextEndpoints]_vars

\* The responses the counters are checked on: a success of each kind, an
\* error, with and without the JSON of an item
CounterResponses == Responses({200, 201, 404}, {BodyJson(Item), BodyText(250)})

\* the endpoint test functions are called in any order, the counters
\* accumulating over the calls
NextCounters ==
    \/ TestCreateEndpoint(1, CounterResponses)
    \/ TestListEndpoint(1, CounterResponses)
    \/ TestDetailsEndpoint(1, CounterResponses)
    \/ TestInvalidPayload(1, CounterResponses)

SpecCounters == Init /\ [][NextCounters]_vars

-----------------------------------------------------------------------------
(* Properties of the CRUD flow *)

Status2xx(status) == status \in 200..299

\* how many samples the running iteration of u added to metric m
Added(u, m) == Cardinality({i \in DOMAIN u.adds : u.adds[i].m = m})

\* the iteration of u has ended (the log of an iteration lives until the next begins)
Ended(u) == u.pc = "idle" /\ u.steps # <<>>

\* the CREATE request of the iteration of u was answered, and not with a 2xx
CreateFailed(u) ==
    /\ u.net # <<>>
    /\ u.net[1].req.method = "POST"
    /\ ~Status2xx(u.net[1].status)

\* C1: when the CREATE request of an iteration gets a non-2xx status, the
\* iteration issues no other request (no READ, UPDATE, DELETE, VERIFY_DELETED:
\* none of these operations is even called), crud_full_flow_failed is
\* incremented exactly once and crud_full_flow_success not at all.
C1_CreateFailureAborts ==
    \A v \in VUs :
        CreateFailed(vu[v]) =>
            /\ Len(vu[v].net) = 1
            /\ vu[v].steps = <<"CREATE">>
            /\ Ended(vu[v])
            /\ Added(vu[v], "crud_full_flow_failed") = 1
            /\ Added(vu[v], "crud_full_flow_success") = 0

C1_Witness ==
    \E v \in VUs : CreateFailed(vu[v]) /\ Ended(vu[v]) /\ vu[v].net[1].status = 404

\* the statuses of the six requests of a flow in which every step succeeded
AllSixOk(u) ==
    /\ Len(u.net) = 6
    /\ <<u.net[1].req.method, u.net[2].req.method, u.net[3].req.method,
         u.net[4].req.method, u.net[5].req.method, u.net[6].req.method>>
       = <<"POST", "GET", "PUT", "GET", "DELETE", "GET">>
    /\ Status2xx(u.net[1].status)
    /\ u.net[2].status = 200
    /\ Status2xx(u.net[3].status)
    /\ u.net[4].status = 200
    /\ Status2xx(u.net[5].status)
    /\ u.net[6].status = 404

\* C2: when CREATE got a 2xx, both READs a 200, UPDATE and DELETE a 2xx and
\* the GET after the delete a 404, the iteration increments
\* crud_full_flow_success exactly once and crud_full_flow_failed not at all.
C2_AllStepsOkCountsSuccessOnce ==
    \A v \in VUs :
        AllSixOk(vu[v]) =>
            /\ Ended(vu[v])
            /\ Added(vu[v], "crud_full_flow_success") = 1
            /\ Added(vu[v], "crud_full_flow_failed") = 0

C2_Witness ==
    \E v \in VUs : AllSixOk(vu[v]) /\ vu[v].net[1].status = 201 /\ vu[v].net[5].status = 200

\* the GET after the delete got a 2xx
VerifyGot2xx(u) ==
    \E i \in DOMAIN u.net : u.net[i].step = "VERIFY_DELETED" /\ Status2xx(u.net[i].status)

\* C3: when the GET after the delete gets a 2xx, the iteration is counted as
\* failed (crud_full_flow_failed incremented once, crud_full_flow_success not),
\* whatever the DELETE request itself got.
C3_StillThereCountsFailed ==
    \A v \in VUs :
        VerifyGot2xx(vu[v]) =>
            /\ Added(vu[v], "crud_full_flow_failed") = 1
            /\ Added(vu[v], "crud_full_flow_success") = 0

\* ... here with every earlier step, the DELETE included, successful
C3_Witness ==
    \E v \in VUs :
        /\ VerifyGot2xx(vu[v])
        /\ Len(vu[v].net) = 6
        /\ Status2xx(vu[v].net[1].status)
        /\ vu[v].net[2].status = 200
        /\ Status2xx(vu[v].net[3].status)
        /\ vu[v].net[4].status = 200
        /\ vu[v].net[5].req.method = "DELETE" /\ Status2xx(vu[v].net[5].status)
        /\ vu[v].net[6].status = 201

FlowOrder == <<"CREATE", "READ", "UPDATE", "READ", "DELETE", "VERIFY_DELETED">>

\* where the flow waits after its n-th operation
AfterStep == <<"read", "update", "verifyUpdate", "delete", "verifyDeleted", "idle">>

\* C4: after a CREATE that got a 2xx the operations of the iteration are called
\* in the order READ, UPDATE, READ, DELETE, VERIFY_DELETED, each once: at any
\* moment the operations called so far are the first n of that order and the
\* flow waits for operation n+1, whether the earlier ones succeeded or failed;
\* the iteration ends only after VERIFY_DELETED.
C4_LinearFlowAfterCreate ==
    \A v \in VUs :
        LET u == vu[v]
            n == Len(u.steps)
        IN  (u.net # <<>> /\ Status2xx(u.net[1].status)) =>
                /\ n \in 1..6
                /\ u.steps = SubSeq(FlowOrder, 1, n)
                /\ u.pc = AfterStep[n]

\* ... an iteration that ended although READ, UPDATE, READ and DELETE all failed
C4_Witness ==
    \E v \in VUs :
        /\ Ended(vu[v])
        /\ vu[v].steps = FlowOrder
        /\ Len(vu[v].net) = 6
        /\ \A i \in 2..5 : vu[v].net[i].status = 404

-----------------------------------------------------------------------------
(* Properties of the run-all options *)

RunAllLoaded == options.loaded /\ options.script = "run-all.js"

\* the profile in use is one of the four shipped ones
ShippedProfile == \E name \in DOMAIN LOAD_PROFILES : options.profile = LOAD_PROFILES[name]

ScenarioVus(name) == options.scenarios[name].vus

\* VUs over the three scenarios
VusSum == ScenarioVus("get_list").v + ScenarioVus("get_details").v + ScenarioVus("create").v

ProfileVus == Prop(options.profile, "vus")

\* C5, as stated: for each of SMOKE, LIGHT, MEDIUM, HEAVY the VU counts of the
\* three scenarios sum to at most the VU count of the profile.
C5_SumWithinProfile ==
    (RunAllLoaded /\ ShippedProfile) => VusSum <= ProfileVus.v

\* C5, amended: for LIGHT, MEDIUM and HEAVY the VU counts of the three
\* scenarios sum to at most the VU count of the profile; for SMOKE (1 VU) each
\* scenario gets 1 VU, 3 in all.
C5_SumWithinProfileButSmoke ==
    (RunAllLoaded /\ ShippedProfile) =>
        /\ \A name \in {"get_list", "get_details", "create"} : ScenarioVus(name).t = "number"
        /\ IF options.profile = LOAD_PROFILES.SMOKE
           THEN \A name \in {"get_list", "get_details", "create"} : ScenarioVus(name).v = 1
           ELSE VusSum <= ProfileVus.v

C5_Witness ==
    /\ RunAllLoaded
    /\ options.profile = LOAD_PROFILES.MEDIUM
    /\ VusSum = 30

\* C6: whatever the VU count of the profile (0 and 1 included), the create
\* scenario gets at least 1 VU.
C6_CreateHasOneVu ==
    RunAllLoaded =>
        /\ ScenarioVus("create").t = "number"
        /\ ScenarioVus("create").v >= 1

C6_Witness ==
    /\ RunAllLoaded
    /\ ProfileVus = JNum(0)
    /\ ScenarioVus("create") = JNum(1)

-----------------------------------------------------------------------------
(* Properties of the validators, the endpoint tests and the request wrappers *)

\* the last call of u was a call of fn
Called(u, fn) == u.steps = <<fn>>

\* the body of the response u worked on is text that is no JSON
NotJson(u) == u.res.body.json = JInvalid

\* the recorded results of the check called name
Results(u, name) == {u.checks[i].pass : i \in {j \in DOMAIN u.checks : u.checks[j].name = name}}

CheckNames(u) == [i \in DOMAIN u.checks |-> u.checks[i].name]

StructureValidators ==
    {"checkListResponse", "checkItemResponse", "checkFieldTypes", "checkListItemStructure"}

\* C7, as stated: on a response whose body is not valid JSON, checkListResponse,
\* checkItemResponse, checkFieldTypes, checkListItemStructure and
\* checkErrorResponse return false and raise no exception, whatever the status
\* and the other arguments.
C7_NotJsonIsFalse ==
    \A v \in VUs :
        (/\ vu[v].steps # <<>>
         /\ vu[v].steps[1] \in StructureValidators \cup {"checkErrorResponse"}
         /\ NotJson(vu[v]))
        => (vu[v].ret = JBool(FALSE) /\ ~vu[v].raised)

\* C7, amended: on a response whose body is not valid JSON, checkListResponse,
\* checkItemResponse, checkFieldTypes and checkListItemStructure return false
\* and raise no exception, whatever the status and the other arguments;
\* checkErrorResponse raises no exception either, and returns the result of
\* its status check: true exactly when the status is the expected one.
C7_NotJsonIsFalseButErrorResponse ==
    \A v \in VUs :
        (vu[v].steps # <<>> /\ NotJson(vu[v])) =>
            /\ vu[v].steps[1] \in StructureValidators =>
                   (vu[v].ret = JBool(FALSE) /\ ~vu[v].raised)
            /\ Called(vu[v], "checkErrorResponse") =>
                   /\ ~vu[v].raised
                   /\ vu[v].ret = JBool(vu[v].res.status = vu[v].args.expectedStatus)

C7_Witness ==
    \E v \in VUs :
        /\ Called(vu[v], "checkErrorResponse")
        /\ NotJson(vu[v])
        /\ vu[v].res.status = 404
        /\ vu[v].ret = JBool(TRUE)

ListChecks ==
    <<<<"status is ", "200">>,
      <<"products", ": has items array">>,
      <<"products", ": items not empty">>,
      <<"products", ": valid page size">>>>

ItemChecks == << <<"item has id">>, <<"item has name">>, <<"item has price">> >>

\* C8: in the list test a 200 with body {items: [{id, name, price}]} passes
\* the status check, the three list checks and the three item checks; a 200
\* with body {items: []} passes the status check and fails 'items not empty',
\* and the status check stays recorded as passed.
C8_ListTestChecks ==
    \A v \in VUs :
        (Called(vu[v], "testListEndpoint") /\ vu[v].res.status = 200) =>
            /\ vu[v].res.body.json = ItemList =>
                   /\ CheckNames(vu[v]) = ListChecks \o ItemChecks
                   /\ \A i \in DOMAIN vu[v].checks : vu[v].checks[i].pass
            /\ vu[v].res.body.json = EmptyList =>
                   /\ Results(vu[v], ListChecks[1]) = {TRUE}
                   /\ Results(vu[v], ListChecks[3]) = {FALSE}

C8_Witness ==
    \E v \in VUs :
        /\ Called(vu[v], "testListEndpoint")
        /\ vu[v].res.status = 200
        /\ vu[v].res.body.json = EmptyList
        /\ CheckNames(vu[v]) = ListChecks
        /\ Results(vu[v], ListChecks[3]) = {FALSE}

\* the JSON value is an object with one of the fields
HasField(json, fields) == json.t = "object" /\ (DOMAIN json.v) \cap fields # {}

\* the two checks of the invalid-payload test are recorded, the first passed
\* exactly on a 4xx and the second exactly on a body with one of the fields
InvalidPayloadChecks(u, fields) ==
    /\ Len(u.checks) = 2
    /\ u.checks[1].name[2] = ": returns 4xx"
    /\ u.checks[2].name[2] = ": has error message"
    /\ u.checks[1].pass <=> (u.res.status >= 400 /\ u.res.status < 500)
    /\ u.checks[2].pass <=> HasField(u.res.body.json, fields)

\* C9, as stated: in the invalid-payload test 'returns 4xx' passes exactly
\* when 400 <= status < 500, 'has error message' passes exactly when the body
\* is JSON with an error or a message field, and both are recorded whatever
\* the other's result.
C9_InvalidPayloadChecks ==
    \A v \in VUs :
        Called(vu[v], "testInvalidPayload") =>
            InvalidPayloadChecks(vu[v], {"error", "message"})

\* C9, amended: in the invalid-payload test 'returns 4xx' passes exactly when
\* 400 <= status < 500, 'has error message' passes exactly when the body is
\* JSON with a message, an error or an errors field, and both are recorded
\* whatever the other's result.
C9_InvalidPayloadChecksWithErrors ==
    \A v \in VUs :
        Called(vu[v], "testInvalidPayload") =>
            InvalidPayloadChecks(vu[v], {"message", "error", "errors"})

C9_Witness ==
    \E v \in VUs :
        /\ Called(vu[v], "testInvalidPayload")
        /\ vu[v].res.status = 200
        /\ HasField(vu[v].res.body.json, {"errors"})
        /\ ~vu[v].checks[1].pass
        /\ vu[v].checks[2].pass

FacadeWrappers == {"get", "post", "put", "patch", "del", "delWithBody"}

\* C10: a call of get, post, put, patch, del or delWithBody issues exactly one
\* HTTP request, returns the response of the runtime unchanged, and writes
\* exactly one error line if the status is >= 400 and none otherwise.
C10_OneRequestOneLogLine ==
    \A v \in VUs :
        (vu[v].steps # <<>> /\ vu[v].steps[1] \in FacadeWrappers) =>
            /\ Len(vu[v].net) = 1
            /\ vu[v].ret = vu[v].res
            /\ Len(vu[v].logs) = (IF vu[v].res.status >= 400 THEN 1 ELSE 0)

C10_Witness ==
    \E v \in VUs :
        /\ Called(vu[v], "delWithBody")
        /\ vu[v].res.status = 400
        /\ Len(vu[v].net) = 1
        /\ Len(vu[v].logs) = 1

\* the last call of u was a call of get, post, put, patch or del that was
\* answered with a status outside 200..299
Non2xxThroughFacade(u) ==
    /\ u.steps # <<>>
    /\ u.steps[1] \in {"get", "post", "put", "patch", "del"}
    /\ ~Status2xx(u.res.status)

\* C11, as stated: every response with a status outside 200..299 (3xx and the
\* status 0 of a transport failure included) that get, post, put, patch or del
\* receives is logged, and its request is issued once only.
C11_Non2xxLogged ==
    \A v \in VUs :
        Non2xxThroughFacade(vu[v]) => (Len(vu[v].logs) >= 1 /\ Len(vu[v].net) = 1)

\* C11, amended: a response with a status of 400 or more that get, post, put,
\* patch or del receives is logged, a response with another status outside
\* 200..299 (3xx, or the status 0 of a transport failure) is not logged; in
\* both cases the request is issued once only.
C11_ErrorStatusLogged ==
    \A v \in VUs :
        Non2xxThroughFacade(vu[v]) =>
            /\ Len(vu[v].net) = 1
            /\ vu[v].res.status >= 400 => Len(vu[v].logs) >= 1
            /\ vu[v].res.status < 400 => vu[v].logs = <<>>

C11_Witness ==
    \E v \in VUs :
        /\ Called(vu[v], "get")
        /\ vu[v].res.status = 0
        /\ vu[v].logs = <<>>
        /\ Len(vu[v].net) = 1

-----------------------------------------------------------------------------
(* Properties of the configuration *)

\* the URL the README and env.js give for a HOST value
HostUrl(name) ==
    CASE name \in {"DEV", Unset} -> "https://api-dev.example.com"
      [] name = "PROD" -> "https://api.example.com"
      [] name = "STAGING" -> "https://api-staging.example.com"
      [] name = "LOCAL" -> "http://localhost:3000"
      [] OTHER -> name

\* C12: the host of every request is the URL of the HOSTS entry when HOST is
\* PROD, DEV, STAGING or LOCAL, the value of HOST itself when it is any other
\* non-empty value, and the DEV URL when HOST is unset.
C12_HostResolution ==
    \A v \in VUs :
        (vu[v].net # <<>> /\ env.HOST # "") =>
            vu[v].net[1].req.url.host = <<HostUrl(env.HOST)>>

\* C13: a request made for a role that is no key of the token table is sent,
\* and it carries no bearer credential.
C13_UnknownRoleUnauthenticated ==
    \A v \in VUs :
        (/\ vu[v].steps # <<>>
         /\ vu[v].steps[1] \in FacadeWrappers
         /\ vu[v].args.role \notin {"USER", "ADMIN", "SUPER_USER"})
        => /\ Len(vu[v].net) = 1
           /\ Head(vu[v].net[1].req.headers.Authorization) # "Bearer "

\* the four profiles as the README and env.js give them
ShippedProfiles ==
    [SMOKE |-> JObj([vus |-> JNum(1), duration |-> Str("30s")]),
     LIGHT |-> JObj([vus |-> JNum(10), duration |-> Str("60s")]),
     MEDIUM |-> JObj([vus |-> JNum(30), duration |-> Str("5m")]),
     HEAVY |-> JObj([vus |-> JNum(100), duration |-> Str("10m")])]

\* C14: with the profile table as shipped, getProfile returns the profile
\* PROFILE names when it names one of SMOKE, LIGHT, MEDIUM, HEAVY, and the
\* LIGHT profile when PROFILE is unset or names no profile: never anything
\* other than one of the four profiles.
C14_ProfileOfTheFour ==
    (options.loaded /\ profiles = LOAD_PROFILES) =>
        options.profile =
            (IF env.PROFILE \in DOMAIN ShippedProfiles
             THEN ShippedProfiles[env.PROFILE]
             ELSE ShippedProfiles.LIGHT)

\* C15: generateThresholds(slo) returns exactly the two keys
\* http_req_duration: ['p(95)<' + p95, 'p(99)<' + p99] and
\* http_req_failed: ['rate<' + errorRate], and no other key; the slo record
\* is the one it was given.
C15_ThresholdsOfSlo ==
    (options.loaded /\ options.script = "slo.js") =>
        /\ options.slo \in SloRecords
        /\ options.thresholds =
               (<<"http_req_duration">> :> << <<"p(95)<", ToString(options.slo.p95)>>,
                                             <<"p(99)<", ToString(options.slo.p99)>> >>) @@
               (<<"http_req_failed">> :> << <<"rate<", options.slo.errorRate>> >>)

\* the tag-scoped keys of the thresholds of run-all
TagKeys == {k \in DOMAIN options.thresholds : Len(k) = 3}

\* C16: in the options of run-all every scenario has a test_type and an
\* operation tag; for each test_type value there is a key
\* 'http_req_duration{test_type:value}' with a p95 and a p99 bound, for each
\* operation value a key 'http_req_failed{operation:value}'; and every
\* tag-scoped key names a tag value that some scenario carries.
C16_ThresholdsMatchTags ==
    RunAllLoaded =>
        /\ \A n \in DOMAIN options.scenarios :
            LET tags == options.scenarios[n].tags
                byType == <<"http_req_duration", "test_type", tags.test_type>>
                byOperation == <<"http_req_failed", "operation", tags.operation>>
            IN  /\ {"test_type", "operation"} \subseteq DOMAIN tags
                /\ byType \in DOMAIN options.thresholds
                /\ Len(options.thresholds[byType]) = 2
                /\ options.thresholds[byType][1][1] = "p(95)<"
                /\ options.thresholds[byType][2][1] = "p(99)<"
                /\ byOperation \in DOMAIN options.thresholds
        /\ \A k \in TagKeys :
            \E n \in DOMAIN options.scenarios :
                /\ k[2] \in DOMAIN options.scenarios[n].tags
                /\ options.scenarios[n].tags[k[2]] = k[3]

C16_Witness ==
    /\ RunAllLoaded
    /\ options.scenarios.create.tags = [test_type |-> "create", operation |-> "write"]
    /\ <<"http_req_duration", "test_type", "create">> \in TagKeys
    /\ <<"http_req_failed", "operation", "write">> \in TagKeys

-----------------------------------------------------------------------------
(* Properties of the metrics of the CRUD flow *)

CrudOperations == {"create", "read", "update", "delete"}

DurationOf(op) ==
    CASE op = "create" -> "crud_create_duration"
      [] op = "read" -> "crud_read_duration"
      [] op = "update" -> "crud_update_duration"
      [] op = "delete" -> "crud_delete_duration"

CountOf(op) ==
    CASE op = "create" -> "crud_create_count"
      [] op = "read" -> "crud_read_count"
      [] op = "update" -> "crud_update_count"
      [] op = "delete" -> "crud_delete_count"

\* the step that uses the operation's metrics
StepOf(op) ==
    CASE op = "create" -> "CREATE"
      [] op = "read" -> "READ"
      [] op = "update" -> "UPDATE"
      [] op = "delete" -> "DELETE"

\* how many requests the running iteration of u issued in the steps called step
Requests(u, step) == Cardinality({i \in DOMAIN u.net : u.net[i].step = step})

\* what the samples the running iteration of u added to metric m sum to
AddedSum(u, m) ==
    LET idx == {i \in DOMAIN u.adds : u.adds[i].m = m}
    IN  IF \A i \in idx : u.adds[i].x = 1 THEN Cardinality(idx) ELSE -1

\* C17, as stated: every step a CRUD iteration reaches (CREATE, READ, UPDATE,
\* READ, DELETE, VERIFY_DELETED) adds one sample to a duration metric and
\* increments a count metric by one, whether it succeeds or fails.
C17_EveryStepMeasured ==
    \A v \in VUs :
        LET durations == {i \in DOMAIN vu[v].adds :
                             vu[v].adds[i].m \in {DurationOf(op) : op \in CrudOperations}}
            counts == {i \in DOMAIN vu[v].adds :
                          vu[v].adds[i].m \in {CountOf(op) : op \in CrudOperations}}
        IN  /\ Cardinality(durations) = Len(vu[v].steps)
            /\ Cardinality(counts) = Len(vu[v].steps)

\* C17, amended: each request a CRUD iteration issues in CREATE, READ, UPDATE
\* or DELETE adds one sample to the duration metric of that operation and
\* increments its count metric by one, whether the request succeeds or fails;
\* a READ, UPDATE or DELETE reached without an id issues no request and adds
\* nothing, and VERIFY_DELETED has no metric of its own and adds nothing.
C17_EveryRequestMeasured ==
    \A v \in VUs : \A op \in CrudOperations :
        /\ Added(vu[v], DurationOf(op)) = Requests(vu[v], StepOf(op))
        /\ Added(vu[v], CountOf(op)) = Requests(vu[v], StepOf(op))
        /\ AddedSum(vu[v], CountOf(op)) = Requests(vu[v], StepOf(op))

C17_Witness ==
    \E v \in VUs :
        /\ Ended(vu[v])
        /\ Len(vu[v].steps) = 6
        /\ Requests(vu[v], "READ") = 2
        /\ \E i \in DOMAIN vu[v].net : vu[v].net[i].step = "READ" /\ vu[v].net[i].status = 404
        /\ Added(vu[v], "crud_read_count") = 2
        /\ Requests(vu[v], "VERIFY_DELETED") = 1

-----------------------------------------------------------------------------
(* The runner scripts.  Each is run by /bin/bash under `set -e`; a k6 run
   is the environment and ends with an exit code chosen from K6ExitCodes.
   The bash that runs a script is an input: since bash 4.1 a (( )) command
   that returns non-zero ends a script under `set -e`, before 4.1 (the
   /bin/bash of macOS is 3.2) it does not. *)

\* k6 run: 0, or the code of crossed thresholds (99) or a script error (107)
K6ExitCodes == {0, 99, 107}

\* ${1:-LIGHT}: the fallback when the argument is unset or empty
ArgOr(value, fallback) == IF value \in {Unset, ""} THEN fallback ELSE value

ScriptProfileArgs == {Unset, "MEDIUM", "HEAVY"}
ScriptHostArgs == {Unset, "STAGING", "PROD"}

\* $? of (( expression )): 1 when the expression evaluates to 0
ArithStatus(value) == IF value = 0 THEN 1 ELSE 0

\* the script ends with the given status
Exit(sh, status) == [sh EXCEPT !.pc = "exited", !.status = status]

\* (variant: without set -e)
Errexit_Off(sh, status, continued) == continued

\* set -e: a simple command that returns non-zero ends the script
Errexit(sh, status, continued) ==
    IF status # 0 THEN Exit(sh, status) ELSE continued

\* set -e on a (( )) command
ArithErrexit(sh, status, continued) ==
    IF status # 0 /\ sh.arithErrexit THEN Exit(sh, status) ELSE continued

\* ((PASSED++)) or ((FAILED++)), by the status of the k6 run in sh.last:
\* the command returns the status of the value before the increment
Count(sh, next) ==
    LET passed == sh.last = 0
        before == IF passed THEN sh.PASSED ELSE sh.FAILED
        counted == [sh EXCEPT !.PASSED = IF passed THEN @ + 1 ELSE @,
                              !.FAILED = IF passed THEN @ ELSE @ + 1]
    IN  ArithErrexit(counted, ArithStatus(before), [counted EXCEPT !.pc = next])

\* echo "Total: $TOTAL" / "Passed: $PASSED" / "Failed: $FAILED"
Summary(sh, total) ==
    [line |-> "SUMMARY", Total |-> total, Passed |-> sh.PASSED, Failed |-> sh.FAILED]

\* if [ $FAILED -gt 0 ]; then exit 1; fi, the last command of the script
ExitByFailed(sh) == Exit(sh, IF sh.FAILED > 0 THEN 1 ELSE 0)

\* k6 run -e PROFILE=... -e HOST=... --out json=... test_file
K6Run(sh, test, code) ==
    [file |-> test.file, name |-> test.name,
     PROFILE |-> sh.PROFILE, HOST |-> sh.HOST, code |-> code]

\* the tests of sequential-tests.sh and parallel-tests.sh
TESTS ==
    << [file |-> "tests/example/get-endpoint.js", name |-> "get-endpoint"],
       [file |-> "tests/example/post-endpoint.js", name |-> "post-endpoint"],
       [file |-> "tests/example/crud-operations.js", name |-> "crud-operations"] >>

-----------------------------------------------------------------------------
(* sequential-tests.sh *)

InitSequential ==
    /\ vu = [v \in VUs |-> IdleVU]
    /\ metrics = ZeroMetrics
    /\ env = DefaultEnv
    /\ profiles = LOAD_PROFILES
    /\ options = NoOptions
    /\ \E profile \in ScriptProfileArgs, host \in ScriptHostArgs, arith \in BOOLEAN :
        shell = [script |-> "sequential-tests.sh", pc |-> "start",
                 arithErrexit |-> arith, args |-> <<profile, host>>,
                 PROFILE |-> Unset, HOST |-> Unset,
                 TOTAL |-> 0, PASSED |-> 0, FAILED |-> 0, i |-> 0, last |-> 0,
                 runs |-> <<>>, out |-> <<>>, slept |-> 0, status |-> -1]

\* lines 16-42: PROFILE="${1:-LIGHT}" ... TOTAL=${#TESTS[@]} PASSED=0 FAILED=0
SeqStart ==
    /\ shell.pc = "start"
    /\ shell' = [shell EXCEPT !.pc = "run",
                              !.PROFILE = ArgOr(shell.args[1], "LIGHT"),
                              !.HOST = ArgOr(shell.args[2], "DEV"),
                              !.TOTAL = Len(TESTS), !.PASSED = 0, !.FAILED = 0, !.i = 0]
    /\ UNCHANGED <<vu, metrics, env, profiles, options>>

\* for i in "${!TESTS[@]}": if k6 run ... "$TEST_FILE"; then
SeqRunK6 ==
    /\ shell.pc = "run"
    /\ \E code \in K6ExitCodes :
        shell' = [shell EXCEPT !.pc = "count", !.last = code,
                      !.runs = Append(@, K6Run(shell, TESTS[shell.i + 1], code))]
    /\ UNCHANGED <<vu, metrics, env, profiles, options>>

\* echo "✓ $TEST_NAME: PASSED"; ((PASSED++)) else
\* echo "✗ $TEST_NAME: FAILED"; ((FAILED++))
SeqCount ==
    /\ shell.pc = "count"
    /\ LET name == TESTS[shell.i + 1].name
           echoed == [shell EXCEPT !.out = Append(@,
                         [line |-> IF shell.last = 0 THEN "PASSED" ELSE "FAILED",
                          name |-> name])]
       IN  shell' = Count(echoed, "wait")
    /\ UNCHANGED <<vu, metrics, env, profiles, options>>

\* if [ $i -lt $((TOTAL-1)) ]; then sleep 10; fi; done
SeqWait ==
    /\ shell.pc = "wait"
    /\ shell' = [shell EXCEPT !.slept = IF shell.i < shell.TOTAL - 1 THEN @ + 10 ELSE @,
                              !.i = @ + 1,
                              !.pc = IF shell.i + 1 < Len(TESTS) THEN "run" ELSE "summary"]
    /\ UNCHANGED <<vu, metrics, env, profiles, options>>

\* lines 74-82
SeqSummary ==
    /\ shell.pc = "summary"
    /\ shell' = [shell EXCEPT !.pc = "end", !.out = Append(@, Summary(shell, shell.TOTAL))]
    /\ UNCHANGED <<vu, metrics, env, profiles, options>>

\* lines 84-86
SeqExit ==
    /\ shell.pc = "end"
    /\ shell' = ExitByFailed(shell)
    /\ UNCHANGED <<vu, metrics, env, profiles, options>>

NextSequential ==
    \/ SeqStart
    \/ SeqRunK6
    \/ SeqCount
    \/ SeqWait
    \/ SeqSummary
    \/ SeqExit

SpecSequential == InitSequential /\ [][NextSequential]_vars

\* the script has ended
Exited == shell.pc = "exited"

\* the k6 runs the script made or waited for that failed
FailedRuns(runs) == {k \in DOMAIN runs : runs[k].code # 0}

\* the summary lines the script printed
Summaries == {k \in DOMAIN shell.out : shell.out[k].line = "SUMMARY"}

\* C18: when sequential-tests.sh ends it has run get-endpoint, post-endpoint
\* and crud-operations, in this order and each once whatever the earlier
\* results, it has printed the summary with PASSED + FAILED = 3, and its
\* exit status is 1 if at least one k6 run failed and 0 otherwise.
C18_SequentialRunsAllThree ==
    Exited =>
        /\ [k \in DOMAIN shell.runs |-> shell.runs[k].file]
               = [k \in DOMAIN TESTS |-> TESTS[k].file]
        /\ Summaries # {}
        /\ \A k \in Summaries : shell.out[k].Passed + shell.out[k].Failed = 3
        /\ shell.status = IF FailedRuns(shell.runs) # {} THEN 1 ELSE 0

-----------------------------------------------------------------------------
(* parallel-tests.sh: the k6 runs are background jobs that end on their own *)

InitParallel ==
    /\ vu = [v \in VUs |-> IdleVU]
    /\ metrics = ZeroMetrics
    /\ env = DefaultEnv
    /\ profiles = LOAD_PROFILES
    /\ options = NoOptions
    /\ \E profile \in ScriptProfileArgs, host \in ScriptHostArgs, arith \in BOOLEAN :
        shell = [script |-> "parallel-tests.sh", pc |-> "start",
                 arithErrexit |-> arith, args |-> <<profile, host>>,
                 PROFILE |-> Unset, HOST |-> Unset,
                 PIDS |-> <<>>, jobs |-> <<>>, waited |-> <<>>,
                 TOTAL |-> 0, PASSED |-> 0, FAILED |-> 0, i |-> 0, last |-> 0,
                 out |-> <<>>, status |-> -1]

\* lines 872-890 and 910-911
ParStart ==
    /\ shell.pc = "start"
    /\ shell' = [shell EXCEPT !.pc = "launch",
                              !.PROFILE = ArgOr(shell.args[1], "LIGHT"),
                              !.HOST = ArgOr(shell.args[2], "DEV"),
                              !.PIDS = <<>>]
    /\ UNCHANGED <<vu, metrics, env, profiles, options>>

\* run_test_bg "$test_file" "$test_name": k6 run ... & PIDS+=($!)
\* called for the three tests, then FAILED=0 PASSED=0
run_test_bg ==
    /\ shell.pc = "launch"
    /\ LET n == Len(shell.PIDS) + 1
           job == [run |-> K6Run(shell, TESTS[n], -1), running |-> TRUE]
       IN  shell' = [shell EXCEPT !.jobs = Append(@, job),
                                  !.PIDS = Append(@, n),
                                  !.pc = IF n < Len(TESTS) THEN "launch" ELSE "wait",
                                  !.PASSED = 0, !.FAILED = 0, !.i = 0]
    /\ UNCHANGED <<vu, metrics, env, profiles, options>>

\* a background k6 run ends, whether or not the script is still running
K6Ends ==
    /\ \E pid \in DOMAIN shell.jobs, code \in K6ExitCodes :
        /\ shell.jobs[pid].running
        /\ shell' = [shell EXCEPT !.jobs[pid].running = FALSE,
                                  !.jobs[pid].run.code = code]
    /\ UNCHANGED <<vu, metrics, env, profiles, options>>

\* for i in "${!PIDS[@]}": if wait ${PIDS[$i]}; then
ParWait ==
    /\ shell.pc = "wait"
    /\ LET pid == shell.PIDS[shell.i + 1]
       IN  /\ ~shell.jobs[pid].running
           /\ shell' = [shell EXCEPT !.pc = "count",
                                     !.last = shell.jobs[pid].run.code,
                                     !.waited = Append(@, shell.jobs[pid].run)]
    /\ UNCHANGED <<vu, metrics, env, profiles, options>>

\* ((PASSED++)) else ((FAILED++)) fi; done; TOTAL=${#PIDS[@]}
ParCount ==
    /\ shell.pc = "count"
    /\ LET next == IF shell.i + 1 < Len(shell.PIDS) THEN "wait" ELSE "summary"
           looped == [shell EXCEPT !.i = @ + 1, !.TOTAL = Len(shell.PIDS)]
       IN  shell' = Count(looped, next)
    /\ UNCHANGED <<vu, metrics, env, profiles, options>>

\* lines 937-951
ParSummary ==
    /\ shell.pc = "summary"
    /\ shell' = [shell EXCEPT !.pc = "end", !.out = Append(@, Summary(shell, shell.TOTAL))]
    /\ UNCHANGED <<vu, metrics, env, profiles, options>>

\* lines 953-955
ParExit ==
    /\ shell.pc = "end"
    /\ shell' = ExitByFailed(shell)
    /\ UNCHANGED <<vu, metrics, env, profiles, options>>

NextParallel ==
    \/ ParStart
    \/ run_test_bg
    \/ K6Ends
    \/ ParWait
    \/ ParCount
    \/ ParSummary
    \/ ParExit

SpecParallel == InitParallel /\ [][NextParallel]_vars

\* C19: when parallel-tests.sh ends it has started the three k6 runs in the
\* background and waited for all three, the passed and failed counts it
\* printed sum to 3, and its exit status is 1 if any run failed and 0
\* otherwise.
C19_ParallelWaitsForAllThree ==
    (shell.script = "parallel-tests.sh" /\ shell.pc = "exited") =>
        /\ Len(shell.jobs) = 3
        /\ [k \in DOMAIN shell.waited |-> shell.waited[k].file]
               = [k \in DOMAIN TESTS |-> TESTS[k].file]
        /\ \E k \in DOMAIN shell.out :
               /\ shell.out[k].line = "SUMMARY"
               /\ shell.out[k].Passed + shell.out[k].Failed = 3
        /\ shell.status = IF FailedRuns(shell.waited) # {} THEN 1 ELSE 0

-----------------------------------------------------------------------------
(* run.sh *)

\* the test files of the working directory besides the shipped ones; a path
\* is the tuple of the pieces it is put together from
Files == {<<"other.js">>, <<"tests/", "mine", ".js">>, <<"tests/example/", "custom", ".js">>}

\* $(basename $TEST .js) of the files above
basename(path) == IF path = "other.js" THEN "other" ELSE path

TestArgs ==
    {"all", "get-endpoint", "get", "post-endpoint", "post", "crud",
     "crud-operations", "other.js", "mine", "custom", "nope"}

\* the command lines: options in the order -t -p -h -v, or -v first, and
\* some that the parser rejects
RunArgs ==
    LET tests == {<<>>} \cup {<<"-t", t>> : t \in TestArgs}
        profs == {<<>>, <<"-p", "HEAVY">>, <<"--profile", "SMOKE">>}
        hosts == {<<>>, <<"-h", "PROD">>}
        verbs == {<<>>, <<"-v">>}
    IN  {t \o p \o h \o v : t \in tests, p \in profs, h \in hosts, v \in verbs}
        \cup {<<"--verbose", "--test", t>> : t \in TestArgs}
        \cup {<<"--help">>, <<"--bogus">>, <<"-t">>, <<"-v", "-p">>, <<"-t", "crud", "--help">>}

\* while [[ $# -gt 0 ]]; do case $1 in ... esac; done
\* (shift 2 with one argument left returns 1 and `set -e` ends the script)
RECURSIVE ParseArguments(_, _)
ParseArguments(sh, args) ==
    IF args = <<>> THEN [sh EXCEPT !.pc = "main"]
    ELSE LET value == IF Len(args) >= 2 THEN args[2] ELSE ""
             shift2 == IF Len(args) >= 2 THEN 0 ELSE 1
             rest2 == IF Len(args) >= 2 THEN SubSeq(args, 3, Len(args)) ELSE <<>>
         IN  CASE Head(args) \in {"-p", "--profile"} ->
                      LET set == [sh EXCEPT !.PROFILE = value]
                      IN  Errexit(set, shift2, ParseArguments(set, rest2))
               [] Head(args) \in {"-h", "--host"} ->
                      LET set == [sh EXCEPT !.HOST = value]
                      IN  Errexit(set, shift2, ParseArguments(set, rest2))
               [] Head(args) \in {"-t", "--test"} ->
                      LET set == [sh EXCEPT !.TEST = value]
                      IN  Errexit(set, shift2, ParseArguments(set, rest2))
               [] Head(args) \in {"-v", "--verbose"} ->
                      ParseArguments([sh EXCEPT !.VERBOSE = TRUE], Tail(args))
               [] Head(args) = "--help" ->
                      Exit([sh EXCEPT !.out = Append(@, [line |-> "help"])], 0)
               [] OTHER ->
                      Exit([sh EXCEPT !.out = Append(@, [line |-> "Unknown option"])], 1)

InitRun ==
    /\ vu = [v \in VUs |-> IdleVU]
    /\ metrics = ZeroMetrics
    /\ env = DefaultEnv
    /\ profiles = LOAD_PROFILES
    /\ options = NoOptions
    /\ \E args \in RunArgs, installed \in BOOLEAN :
        shell = [script |-> "run.sh", pc |-> "start",
                 args |-> args, k6Installed |-> installed,
                 PROFILE |-> "LIGHT", HOST |-> "DEV", TEST |-> "all", VERBOSE |-> FALSE,
                 test_file |-> <<>>, test_name |-> Unset, last |-> 0,
                 runs |-> <<>>, out |-> <<>>, status |-> -1]

\* lines 130-162
RunParse ==
    /\ shell.pc = "start"
    /\ shell' = ParseArguments(shell, shell.args)
    /\ UNCHANGED <<vu, metrics, env, profiles, options>>

\* lines 168-179: print_header, check_k6, create_output_dir
RunMain ==
    /\ shell.pc = "main"
    /\ shell' = IF shell.k6Installed
                THEN [shell EXCEPT !.pc = "case"]
                ELSE Exit([shell EXCEPT !.out = Append(@, [line |-> "k6 is not installed"])], 1)
    /\ UNCHANGED <<vu, metrics, env, profiles, options>>

\* case $TEST in ... esac: the arguments of run_test, or exit 1
RunCase ==
    /\ shell.pc = "case"
    /\ LET T == shell.TEST
           run_test(file, name) ==
               [shell EXCEPT !.pc = "k6", !.test_file = file, !.test_name = name]
       IN  shell' =
             CASE T = "all" -> run_test(<<"run-all.js">>, "all-scenarios")
               [] T \in {"get-endpoint", "get"} ->
                      run_test(<<"tests/example/get-endpoint.js">>, "get-endpoint")
               [] T \in {"post-endpoint", "post"} ->
                      run_test(<<"tests/example/post-endpoint.js">>, "post-endpoint")
               [] T \in {"crud", "crud-operations"} ->
                      run_test(<<"tests/example/crud-operations.js">>, "crud-operations")
               [] OTHER ->
                      IF <<T>> \in Files THEN run_test(<<T>>, basename(T))
                      ELSE IF <<"tests/", T, ".js">> \in Files
                          THEN run_test(<<"tests/", T, ".js">>, T)
                      ELSE IF <<"tests/example/", T, ".js">> \in Files
                          THEN run_test(<<"tests/example/", T, ".js">>, T)
                      ELSE Exit([shell EXCEPT !.out = Append(@, [line |-> "Unknown test"])], 1)
    /\ UNCHANGED <<vu, metrics, env, profiles, options>>

\* run_test, lines 99-112: k6 run, with --summary-trend-stats unless
\* $VERBOSE; `set -e` ends the script with the status of a failed run
RunK6 ==
    /\ shell.pc = "k6"
    /\ \E code \in K6ExitCodes :
        LET run == [summaryTrendStats |-> ~shell.VERBOSE]
                       @@ K6Run(shell, [file |-> shell.test_file, name |-> shell.test_name], code)
            ran == [shell EXCEPT !.runs = Append(@, run), !.last = code]
        IN  shell' = Errexit(ran, code, [ran EXCEPT !.pc = "report"])
    /\ UNCHANGED <<vu, metrics, env, profiles, options>>

\* run_test, lines 114-124: local exit_code=$? ... return $exit_code
RunReport ==
    /\ shell.pc = "report"
    /\ LET exit_code == shell.last
           echoed == [shell EXCEPT !.out = Append(@,
                         [line |-> IF exit_code = 0 THEN "completed successfully"
                                   ELSE "failed with exit code",
                          name |-> shell.test_name])]
       IN  shell' = Errexit(echoed, exit_code, [echoed EXCEPT !.pc = "done"])
    /\ UNCHANGED <<vu, metrics, env, profiles, options>>

\* lines 212-218
RunComplete ==
    /\ shell.pc = "done"
    /\ shell' = Exit([shell EXCEPT !.out = Append(@, [line |-> "Test execution completed"])], 0)
    /\ UNCHANGED <<vu, metrics, env, profiles, options>>

NextRun ==
    \/ RunParse
    \/ RunMain
    \/ RunCase
    \/ RunK6
    \/ RunReport
    \/ RunComplete

SpecRun == InitRun /\ [][NextRun]_vars

\* C20: run.sh exits with a non-zero status whenever the k6 run of the
\* selected test exits non-zero, whatever -t, -p and -h were given and with
\* or without -v.
C20_RunFailsWithK6 ==
    (shell.script = "run.sh" /\ shell.pc = "exited") =>
        \A k \in DOMAIN shell.runs :
            shell.runs[k].code # 0 => shell.status # 0

C20_Witness ==
    /\ shell.script = "run.sh" /\ shell.pc = "exited"
    /\ shell.VERBOSE /\ shell.TEST = "crud" /\ shell.PROFILE = "HEAVY" /\ shell.HOST = "PROD"
    /\ Len(shell.runs) = 1
    /\ shell.runs[1].file = <<"tests/example/crud-operations.js">>
    /\ shell.runs[1].code = 99
    /\ shell.status = 99

-----------------------------------------------------------------------------
(* crud-operations.js run by several virtual users: each VU runs the default
   function in a JavaScript runtime of its own, the steps of different VUs
   interleave at the blocking calls, and the custom metrics are shared *)

\* what the API answers a CREATE, the steps between, and the last two steps
CreateAnswers == {ResCreated, ResNoId, ResNotFound}
MiddleAnswers == {ResOk}
DeleteAnswers == {ResOk, ResNotFound}

NextVUs ==
    \E v \in VUs :
        \/ Begin(v)
        \/ StepCreate(v, CreateAnswers)
        \/ StepRead(v, MiddleAnswers)
        \/ StepUpdate(v, MiddleAnswers)
        \/ StepVerifyUpdate(v, DeleteAnswers)
        \/ StepDelete(v, DeleteAnswers)
        \/ StepVerifyDeleted(v, DeleteAnswers)

SpecVUs == Init /\ [][NextVUs]_vars

-----------------------------------------------------------------------------
(* Properties of interleaved iterations *)

\* the status with which a step counts as succeeded
StepOk(x) ==
    CASE x.step = "CREATE" -> Status2xx(x.status)
      [] x.step = "READ" -> x.status = 200
      [] x.step = "UPDATE" -> Status2xx(x.status)
      [] x.step = "DELETE" -> Status2xx(x.status)
      [] x.step = "VERIFY_DELETED" -> x.status = 404

\* every step the iteration of u has executed issued its request, and every
\* request of the iteration got the status of a success
OwnRequestsOk(u) ==
    /\ Len(u.net) = Len(u.steps)
    /\ \A i \in DOMAIN u.net : StepOk(u.net[i])

\* C21: at every moment of an interleaved run, the steps an iteration has
\* executed and its outcome are those its own responses determine: an
\* iteration starts with fresh locals whatever happened before, it stops
\* after CREATE exactly when its own CREATE failed and otherwise goes through
\* the six steps, its flowSuccess is the conjunction over its own requests,
\* and the counter it increments at its end is the one of that outcome.
C21_IterationsIndependent ==
    \A v \in VUs :
        LET u == vu[v]
            n == Len(u.steps)
        IN  /\ u.pc = "create" =>
                   u.flowSuccess /\ u.createdId = JNull /\ u.steps = <<>> /\ u.net = <<>>
            /\ n > 0 =>
                   /\ u.steps = SubSeq(FlowOrder, 1, n)
                   /\ u.flowSuccess = OwnRequestsOk(u)
                   /\ u.pc = IF StepOk(u.net[1]) THEN AfterStep[n] ELSE "idle"
                   /\ ~StepOk(u.net[1]) => n = 1
            /\ Ended(u) =>
                   /\ Added(u, "crud_full_flow_success") = BoolNum(OwnRequestsOk(u))
                   /\ Added(u, "crud_full_flow_failed") = BoolNum(~OwnRequestsOk(u))

\* one VU's CREATE has failed in its second iteration while the other VU is in
\* the middle of an iteration, which then ends as a success
C21_Witness ==
    \E v, w \in VUs :
        /\ v # w
        /\ vu[v].iter = 2 /\ CreateFailed(vu[v]) /\ Ended(vu[v])
        /\ Ended(vu[w]) /\ vu[w].iter = 2 /\ AllSixOk(vu[w]) /\ vu[w].flowSuccess
        /\ metrics["crud_full_flow_failed"].sum >= 2

\* iterations completed by all virtual users
RECURSIVE Completed(_)
Completed(S) ==
    IF S = {} THEN 0
    ELSE LET v == CHOOSE x \in S : TRUE IN vu[v].iter + Completed(S \ {v})

\* C25: crud_full_flow_success + crud_full_flow_failed equals the number of
\* completed iterations, and each completed iteration incremented exactly one
\* of the two counters, once.
C25_OneCounterPerIteration ==
    /\ metrics["crud_full_flow_success"].sum + metrics["crud_full_flow_failed"].sum
           = Completed(VUs)
    /\ \A v \in VUs :
           Ended(vu[v]) =>
               Added(vu[v], "crud_full_flow_success") + Added(vu[v], "crud_full_flow_failed") = 1

C25_Witness ==
    /\ Completed(VUs) = 4
    /\ metrics["crud_full_flow_success"].sum = 1
    /\ metrics["crud_full_flow_failed"].sum = 3
    /\ \E v \in VUs : CreateFailed(vu[v]) /\ Ended(vu[v])

-----------------------------------------------------------------------------
(* A script that calls the composite validators: one action per call *)

CompositeResponses == Responses({200, 201, 204, 404}, Bodies)

CallCheckGetListEndpoint(v, Rs) ==
    /\ CanCall(v)
    /\ \E res \in Rs, itemValidator \in ItemValidators \cup {"null"} :
        vu' = [vu EXCEPT ![v] =
                 Validated(@, "checkGetListEndpoint",
                           [itemValidator |-> itemValidator, context |-> "list"], res,
                           checkGetListEndpoint(res, itemValidator, "list"))]
    /\ UNCHANGED <<metrics, env, profiles, options, shell>>

CallCheckGetItemEndpoint(v, Rs) ==
    /\ CanCall(v)
    /\ \E res \in Rs, requiredFields \in {<<"id">>, <<"id", "name">>} :
        vu' = [vu EXCEPT ![v] =
                 Validated(@, "checkGetItemEndpoint",
                           [requiredFields |-> requiredFields, context |-> "item"], res,
                           checkGetItemEndpoint(res, requiredFields, "item"))]
    /\ UNCHANGED <<metrics, env, profiles, options, shell>>

CallCheckPostEndpoint(v, Rs) ==
    /\ CanCall(v)
    /\ \E res \in Rs, requiredFields \in {<<"id">>, <<"id", "name">>} :
        vu' = [vu EXCEPT ![v] =
                 Validated(@, "checkPostEndpoint",
                           [requiredFields |-> requiredFields, context |-> "create"], res,
                           checkPostEndpoint(res, requiredFields, "create"))]
    /\ UNCHANGED <<metrics, env, profiles, options, shell>>

NextComposite ==
    \/ CallCheckGetListEndpoint(1, CompositeResponses)
    \/ CallCheckGetItemEndpoint(1, CompositeResponses)
    \/ CallCheckPostEndpoint(1, CompositeResponses)

SpecComposite == Init /\ [][NextComposite]_vars

-----------------------------------------------------------------------------
(* Properties of the composite validators *)

CompositeValidators == {"checkGetListEndpoint", "checkGetItemEndpoint", "checkPostEndpoint"}

\* the status check of the composite validator u called, and its condition
StatusCheck(u) ==
    IF Called(u, "checkPostEndpoint") THEN <<u.args.context, ": status is 2xx">>
    ELSE <<"status is ", "200">>

StatusHolds(u) ==
    IF Called(u, "checkPostEndpoint") THEN Status2xx(u.res.status) ELSE u.res.status = 200

\* the validator went on to its structure checks
StructureRuns(u) ==
    StatusHolds(u) /\ (Called(u, "checkPostEndpoint") => BodyTruthy(u.res))

\* the structure checks of the validator, in order
StructureChecks(u) ==
    IF Called(u, "checkGetListEndpoint")
    THEN << <<u.args.context, ": has items array">>,
            <<u.args.context, ": items not empty">>,
            <<u.args.context, ": valid page size">> >>
         \o (IF u.args.itemValidator # "null"
             THEN << <<<<u.args.context, "-item">>, ": valid structure">> >>
             ELSE <<>>)
    ELSE << <<u.args.context, ": response is object">> >>
         \o [i \in DOMAIN u.args.requiredFields |->
                <<u.args.context, ": has ", u.args.requiredFields[i]>>]

AllPassed(u) == \A i \in DOMAIN u.checks : u.checks[i].pass

\* C22, as stated: a composite validator always records the status check; it
\* records structure checks only when the status condition holds; when the
\* structure checks run, each of them is recorded, whatever the earlier ones
\* gave; and it returns true exactly when every check passed.
C22_CompositeRecordsAll ==
    \A v \in VUs :
        LET u == vu[v]
        IN  (u.steps # <<>> /\ u.steps[1] \in CompositeValidators) =>
                /\ u.checks # <<>>
                /\ u.checks[1] = [name |-> StatusCheck(u), pass |-> StatusHolds(u)]
                /\ Len(u.checks) > 1 => StatusHolds(u)
                /\ StructureRuns(u) => CheckNames(u) = <<StatusCheck(u)>> \o StructureChecks(u)
                /\ u.ret = JBool(AllPassed(u))
                /\ ~u.raised

\* the body the validator worked on parses, to a value whose properties can
\* be read, and has an item for the item check if the validator makes one
Checkable(u) ==
    LET d == u.res.body.json
        items == OptProp(d, "items")
    IN  /\ ~NotJson(u)
        /\ ~Throws(d)
        /\ (Called(u, "checkGetListEndpoint") /\ u.args.itemValidator # "null") =>
               /\ IsArray(items)
               /\ Len(items.v) > 0
               /\ u.args.itemValidator = "hasId" => ~Throws(At(items, 0))

\* C22, amended: a composite validator always records the status check; it
\* records structure checks only when the status condition holds; when the
\* structure checks run on a body that parses to a value other than null (with
\* a first item other than null where an item is validated), each of them is
\* recorded, whatever the earlier ones gave; on a body that does not parse no
\* structure check is recorded; and the validator returns true exactly when
\* every structure check that was due is recorded and every check passed.
C22_CompositeRecordsAllOfJson ==
    \A v \in VUs :
        LET u == vu[v]
            due == <<StatusCheck(u)>> \o (IF StructureRuns(u) THEN StructureChecks(u) ELSE <<>>)
        IN  (u.steps # <<>> /\ u.steps[1] \in CompositeValidators) =>
                /\ u.checks # <<>>
                /\ u.checks[1] = [name |-> StatusCheck(u), pass |-> StatusHolds(u)]
                /\ Len(u.checks) > 1 => StatusHolds(u)
                /\ (StructureRuns(u) /\ Checkable(u)) => CheckNames(u) = due
                /\ NotJson(u) => Len(u.checks) = 1
                /\ u.ret = JBool(CheckNames(u) = due /\ AllPassed(u))
                /\ ~u.raised

\* a 200 whose body is no JSON: the status check passed, nothing else is
\* recorded, and the validator returns false
C22_Witness ==
    \E v \in VUs :
        /\ Called(vu[v], "checkGetListEndpoint")
        /\ vu[v].res.status = 200
        /\ NotJson(vu[v])
        /\ Len(vu[v].checks) = 1
        /\ AllPassed(vu[v])
        /\ vu[v].ret = JBool(FALSE)

-----------------------------------------------------------------------------
(* A script that calls the response helpers: one action per call *)

HelperResponses == Responses({200, 201, 404}, Bodies)

IdFields == {"id", "name", "uuid"}

\* the VU after a call of a helper that returned ret
Helped(u, fn, args, res, ret) ==
    [IdleVU EXCEPT !.iter = u.iter + 1, !.steps = <<fn>>, !.args = args, !.res = res,
                   !.ret = ret]

CallSafeJson(v, Rs) ==
    /\ CanCall(v)
    /\ \E res \in Rs :
        vu' = [vu EXCEPT ![v] = Helped(@, "safeJson", [idField |-> "none"], res, safeJson(res))]
    /\ UNCHANGED <<metrics, env, profiles, options, shell>>

CallExtractId(v, Rs) ==
    /\ CanCall(v)
    /\ \E res \in Rs, idField \in IdFields :
        vu' = [vu EXCEPT ![v] = Helped(@, "extractId", [idField |-> idField], res,
                                       extractId(res, idField))]
    /\ UNCHANGED <<metrics, env, profiles, options, shell>>

NextHelpers ==
    \/ CallSafeJson(1, HelperResponses)
    \/ CallExtractId(1, HelperResponses)

SpecHelpers == Init /\ [][NextHelpers]_vars

\* the body parses to a JSON object that contains the field
ContainsField(res, field) ==
    /\ res.body.json # JInvalid
    /\ res.body.json.t = "object"
    /\ field \in DOMAIN res.body.json.v

\* C23: extractId(res, idField) returns the value of the field idField when
\* the body parses to JSON that contains the field, and null in every other
\* case: a body that does not parse, that parses to a falsy value, or that
\* parses to an object without the field.
C23_ExtractIdOrNull ==
    \A v \in VUs :
        Called(vu[v], "extractId") =>
            vu[v].ret = IF ContainsField(vu[v].res, vu[v].args.idField)
                        THEN vu[v].res.body.json.v[vu[v].args.idField]
                        ELSE JNull

-----------------------------------------------------------------------------
(* crud-operations.js with a scenario whose exec is crudFlow, next to the
   default function *)

\* crudFlow(): return arguments.callee.caller.apply(this, arguments)
\* arguments.callee is crudFlow itself and its caller is whoever called
\* crudFlow, never the default function.  In strict code (a module) reading
\* arguments.callee raises a TypeError; in sloppy code the caller of a
\* function the runtime calls is null, and null.apply raises a TypeError.
\* Either way the exception ends the iteration before any request.
crudFlow(strict) ==
    [reqs |-> <<>>,
     logs |-> <<[context |-> "crudFlow",
                 text |-> IF strict THEN "TypeError: arguments.callee"
                          ELSE "TypeError: caller is null",
                 status |-> 0, detail |-> "e"]>>,
     checks |-> <<>>,
     adds |-> <<>>,
     ret |-> JUndef,
     raised |-> TRUE]

\* the runtime calls crudFlow for an iteration of the VU
CallCrudFlow(v) ==
    /\ CanCall(v)
    /\ \E strict \in BOOLEAN :
        LET eff == crudFlow(strict)
        IN  /\ vu' = [vu EXCEPT ![v] =
                        [IdleVU EXCEPT !.iter = vu[v].iter + 1, !.steps = <<"crudFlow">>,
                                       !.net = eff.reqs, !.logs = eff.logs,
                                       !.checks = eff.checks, !.adds = eff.adds,
                                       !.ret = eff.ret, !.raised = eff.raised]]
            /\ metrics' = AddSamples(metrics, eff.adds)
    /\ UNCHANGED config

NextScenarios ==
    \/ Begin(1)
    \/ StepCreate(1, CreateAnswers)
    \/ StepRead(1, DeleteAnswers)
    \/ StepUpdate(1, DeleteAnswers)
    \/ StepVerifyUpdate(1, DeleteAnswers)
    \/ StepDelete(1, DeleteAnswers)
    \/ StepVerifyDeleted(1, DeleteAnswers)
    \/ CallCrudFlow(1)

SpecScenarios == Init /\ [][NextScenarios]_vars

\* what every ended iteration of the default function looks like: no
\* exception, the CREATE request first, one create count, the operations of
\* the flow up to CREATE or up to VERIFY_DELETED, one of the two flow counters
DefaultIteration(u) ==
    /\ ~u.raised
    /\ u.net # <<>>
    /\ u.net[1].step = "CREATE" /\ u.net[1].req.method = "POST"
    /\ Added(u, "crud_create_count") = 1
    /\ Added(u, "crud_full_flow_success") + Added(u, "crud_full_flow_failed") = 1

\* C24: an iteration run through crudFlow is an iteration of the default
\* function: once it has ended, its requests and its metric updates are
\* those of a default iteration.
C24_CrudFlowIsDefault ==
    \A v \in VUs :
        (vu[v].pc = "idle" /\ vu[v].steps # <<>>) => DefaultIteration(vu[v])

-----------------------------------------------------------------------------
(* Properties of the ids, the checks and the snapshot of the CRUD flow *)

\* the path of the resource with the given id: `/products/${id}`
ProductPath(id) == <<"/products/">> \o ToStr(id)

\* C26: every request an iteration issues after CREATE targets /products/{id}
\* with the id taken from the CREATE response; when CREATE got a 2xx but its
\* body yields no id (null or undefined), the iteration issues no request
\* after the CREATE, in none of the later steps, VERIFY_DELETED included.
C26_NoRequestWithoutId ==
    \A v \in VUs :
        LET u == vu[v]
        IN  (u.net # <<>> /\ u.net[1].step = "CREATE" /\ Status2xx(u.net[1].status)) =>
                IF u.createdId \in {JNull, JUndef}
                THEN Len(u.net) = 1
                ELSE \A i \in 2..Len(u.net) : u.net[i].req.url.path = ProductPath(u.createdId)

\* C27: the check 'CREATE: has id' passes only when the body of the CREATE
\* response is JSON that contains an id field; it fails when the body is JSON
\* without an id field and when the body is not JSON.
C27_HasIdOnlyWithId ==
    \A v \in VUs :
        LET u == vu[v]
        IN  (u.net # <<>> /\ u.net[1].step = "CREATE") =>
                Results(u, <<"CREATE: has id">>) = {ContainsField(u.net[1].res, "id")}

\* the first READ of the iteration of u issued its request and got a 200
FirstReadOk(u) == Len(u.net) >= 2 /\ u.net[2].step = "READ" /\ u.net[2].status = 200

\* C28: once the first READ is done, the snapshot UPDATE builds its payload
\* from is the body of that READ when it got a 200, and otherwise the body of
\* the CREATE response: the body of a failed READ is never the snapshot.  The
\* payload of the UPDATE request is built from that snapshot.
C28_SnapshotOfSuccessfulRead ==
    \A v \in VUs :
        LET u == vu[v]
            created == safeJson(u.net[1].res)
            read == safeJson(u.net[2].res)
            snapshot == IF FirstReadOk(u) /\ Truthy(read) THEN read ELSE created
        IN  (Len(u.steps) >= 2 /\ u.steps[2] = "READ") =>
                /\ u.resourceData = snapshot
                /\ \A i \in DOMAIN u.net :
                       u.net[i].step = "UPDATE" =>
                           u.net[i].req.body = updatePayload(snapshot, "r")

-----------------------------------------------------------------------------
(* The outcome of the flow and the other checks *)

\* some check of the iteration of u, other than the status checks, failed
OtherCheckFailed(u) ==
    \E i \in DOMAIN u.checks :
        /\ ~u.checks[i].pass
        /\ u.checks[i].name \in
               {<<"CREATE: has id">>, <<"READ: has correct id">>, <<"UPDATE: name changed">>,
                <<"CREATE: response time OK">>, <<"READ: response time OK">>,
                <<"UPDATE: response time OK">>, <<"DELETE: response time OK">>}

\* C29: an ended iteration has incremented crud_full_flow_success exactly
\* when all six status conditions held (CREATE 2xx, first READ 200, UPDATE
\* 2xx, second READ 200, DELETE 2xx, VERIFY_DELETED 404) and
\* crud_full_flow_failed otherwise, whatever the other checks ('CREATE: has
\* id', 'READ: has correct id', 'UPDATE: name changed', the response times)
\* gave; its last check records that same outcome.
C29_OutcomeOfSixStatuses ==
    \A v \in VUs :
        LET u == vu[v]
        IN  Ended(u) =>
                /\ Added(u, "crud_full_flow_success") = BoolNum(AllSixOk(u))
                /\ Added(u, "crud_full_flow_failed") = BoolNum(~AllSixOk(u))
                /\ u.flowSuccess = AllSixOk(u)
                /\ ~CreateFailed(u) =>
                       Results(u, <<"CRUD flow completed successfully">>) = {AllSixOk(u)}

\* a flow counted as a success although a check on an id and a check on a
\* response time failed
C29_Witness ==
    \E v \in VUs :
        /\ Ended(vu[v])
        /\ AllSixOk(vu[v])
        /\ Added(vu[v], "crud_full_flow_success") = 1
        /\ Results(vu[v], <<"READ: has correct id">>) = {FALSE}
        /\ Results(vu[v], <<"CREATE: response time OK">>) = {FALSE}
        /\ OtherCheckFailed(vu[v])


-----------------------------------------------------------------------------
(* Properties of the counters of the endpoint tests *)

Counter(m) == metrics[m].sum

\* the samples the call of u added to the counter m are n samples of 1
AddedOnes(u, m, n) ==
    /\ Added(u, m) = n
    /\ \A i \in DOMAIN u.adds : u.adds[i].m = m => u.adds[i].x = 1

ErrorsOf(failed) == IF failed THEN 1 ELSE 0

(* C30: after any sequence of calls of the endpoint test functions,
   post_create_errors + post_created_items = post_create_requests,
   get_list_errors <= get_list_requests and get_details_errors <=
   get_details_requests; each call adds exactly 1 to its request counter and
   at most 1 to its error counter, the latter exactly when the status is not
   a success status: not 2xx for create, not 200 for list and details. *)
C30_CountersConsistent ==
    /\ Counter("post_create_errors") + Counter("post_created_items")
           = Counter("post_create_requests")
    /\ Counter("get_list_errors") <= Counter("get_list_requests")
    /\ Counter("get_details_errors") <= Counter("get_details_requests")
    /\ \A v \in VUs :
        LET u == vu[v]
        IN  /\ Called(u, "testCreateEndpoint") =>
                /\ AddedOnes(u, "post_create_requests", 1)
                /\ AddedOnes(u, "post_create_errors", ErrorsOf(~Status2xx(u.res.status)))
                /\ AddedOnes(u, "post_created_items", ErrorsOf(Status2xx(u.res.status)))
            /\ Called(u, "testListEndpoint") =>
                /\ AddedOnes(u, "get_list_requests", 1)
                /\ AddedOnes(u, "get_list_errors", ErrorsOf(u.res.status # 200))
            /\ Called(u, "testDetailsEndpoint") =>
                /\ AddedOnes(u, "get_details_requests", 1)
                /\ AddedOnes(u, "get_details_errors", ErrorsOf(u.res.status # 200))

\* two creations, one refused and one accepted with a body that carries no
\* id, counted as one error and one created item
C30_Witness ==
    /\ Called(vu[1], "testCreateEndpoint")
    /\ vu[1].res.status = 201
    /\ JsonThrows(vu[1].res)
    /\ Counter("post_create_requests") = 2
    /\ Counter("post_create_errors") = 1
    /\ Counter("post_created_items") = 1

=============================================================================
